---- MODULE Spec2Model ----
(***************************************************************************)
(* A model of the tabular Q-learning "algae collector" of main.py:         *)
(* AlgaeEnvironment, ImprovedQLearningAgent, LiveTrainingVisualizer, the   *)
(* training loop and the demo; and of the statistics dashboard of          *)
(* ecosystem_stats.py: EcosystemStats, its polling thread and GUI thread;  *)
(* and of the brains and the per-frame update of fish_controller.py.       *)
(*                                                                         *)
(* Arithmetic.  The program computes in floating point; the model computes *)
(* in fixed point:                                                         *)
(*   lengths and coordinates   in units of 1/Scale   (1/100)               *)
(*   rewards and table values  in units of 1/RScale  (1/200), so that      *)
(*                             0.5 * distance, 0.1 and 100 are all exact   *)
(*   unit direction components in units of 1/DirScale                      *)
(*   rates and factors         in units of 1/Milli                         *)
(*   the exploration rate      in units of 1/EScale                        *)
(* math.sqrt is the integer square root of the squared length, int() is    *)
(* truncation toward zero.                                                 *)
(***************************************************************************)
EXTENDS Integers, Sequences, FiniteSets, TLC

VARIABLES
    \* AlgaeEnvironment
    agent_x, agent_y, algae, score, steps, total_reward,
    \* ImprovedQLearningAgent
    q_table, epsilon, learning_rate, discount_factor, epsilon_decay, epsilon_min,
    \* LiveTrainingVisualizer
    scores, epsilons, avg_rewards, agent_trail,
    \* the running program: position, loop locals
    pc, episode, state, step_count, old_epsilon,
    \* the last call: which operation, its arguments, what it returned or raised
    op, args, ret, err,
    \* the exploration rate the agent was constructed with
    epsilon_initial,
    \* EcosystemStats: system state, the six series
    running, simulation_connected, update_thread,
    time_points, total_environmental_nutrition, fish_count, plant_count,
    temperature_data, bleached_count_data,
    \* EcosystemStats: the widgets and the GUI thread's queue of root.after
    connection_label, info_text, charts, after_queue,
    \* the polling thread: position in data_update_loop and its locals
    poll_pc, polled, last_data_hash,
    \* whether the Tcl under tkinter was built with threads
    threaded,
    \* fish_controller.py: the module's globals
    fish_brains, frame_counter, next_fish_id, shutdown_requested,
    reproduction_tracking

envVars == <<agent_x, agent_y, algae, score, steps, total_reward>>
agentVars == <<q_table, epsilon, learning_rate, discount_factor, epsilon_decay, epsilon_min>>
visVars == <<scores, epsilons, avg_rewards, agent_trail>>
loopVars == <<pc, episode, state, step_count, old_epsilon>>
callVars == <<op, args, ret, err>>
seriesVars ==
    <<time_points, total_environmental_nutrition, fish_count, plant_count,
      temperature_data, bleached_count_data>>
widgetVars == <<connection_label, info_text, charts>>
pollVars == <<poll_pc, polled, last_data_hash>>
statsVars ==
    <<running, simulation_connected, update_thread, seriesVars, widgetVars,
      after_queue, pollVars, threaded>>
fishVars ==
    <<fish_brains, frame_counter, next_fish_id, shutdown_requested,
      reproduction_tracking>>
vars ==
    <<envVars, agentVars, visVars, loopVars, callVars, epsilon_initial, statsVars, fishVars>>

----------------------------------------------------------------------------
\* Units

Scale == 100
RScale == 200
DirScale == 1000
Milli == 1000
EScale == 100000

\* Bounds of the model

\* the episode's step budget (300 in the program), kept small so that every
\* episode can be enumerated to its end
StepLimit == 2
\* resources per episode (num_algae, 8 by default)
NumAlgae == 2
\* the points random.uniform(10, width-10) is sampled at, for the agent and
\* for the resources
AgentStarts == {<<1000, 1000>>, <<5000, 5000>>}
AlgaeSpots == << <<5000, 5700>>, <<5200, 5700>>, <<5000, 5000>>, <<1000, 1600>> >>
\* the action indices the environment is called with from outside the
\* training loop: the eight directions and indices off either end
CalledActions == {-9, -1} \cup (0 .. 8)

----------------------------------------------------------------------------
\* AlgaeEnvironment

width == 100
height == 100
max_speed == 3

W == width * Scale
H == height * Scale

NoneIdx == -1
Inf == 1000000000

Min(a, b) == IF a < b THEN a ELSE b
Max(a, b) == IF a > b THEN a ELSE b

\* int(): truncation toward zero of n/d, d > 0
Trunc(n, d) == IF n >= 0 THEN n \div d ELSE -((-n) \div d)

\* a power of two that is at least the square root of n, n < 4^15
SqrtGuess(n) ==
    IF n < 65536
    THEN (IF n < 256 THEN (IF n < 16 THEN 4 ELSE 16)
          ELSE (IF n < 4096 THEN 64 ELSE 256))
    ELSE IF n < 16777216
    THEN (IF n < 262144 THEN 512
          ELSE IF n < 1048576 THEN 1024
          ELSE IF n < 4194304 THEN 2048 ELSE 4096)
    ELSE (IF n < 67108864 THEN 8192
          ELSE IF n < 268435456 THEN 16384 ELSE 32768)

\* Newton's iteration from above: the largest x with x * x <= n
RECURSIVE SqrtIter(_, _)
SqrtIter(n, x) ==
    LET y == (x + n \div x) \div 2
    IN  IF y >= x THEN x ELSE SqrtIter(n, y)

\* math.sqrt
Sqrt(n) == IF n = 0 THEN 0 ELSE SqrtIter(n, SqrtGuess(n))

\* math.sqrt((agent_x - algae_x)**2 + (agent_y - algae_y)**2)
Distance(ax, ay, px, py) == Sqrt((ax - px) * (ax - px) + (ay - py) * (ay - py))

\* the loop of get_nearest_algae_info over alg[i..], 0-based index i-1
RECURSIVE NearestScan(_, _, _, _, _, _)
NearestScan(ax, ay, alg, i, min_dist, nearest_algae) ==
    IF i > Len(alg) THEN [min_dist |-> min_dist, nearest_algae |-> nearest_algae]
    ELSE LET dist == Distance(ax, ay, alg[i][1], alg[i][2])
         IN  IF dist < min_dist
             THEN NearestScan(ax, ay, alg, i + 1, dist, i - 1)
             ELSE NearestScan(ax, ay, alg, i + 1, min_dist, nearest_algae)

\* NoAlgaeInfo with the distance 0 in place of width + height
NoAlgaeInfo_ZeroDistance ==
    [dist |-> 0, nearest |-> NoneIdx, dx |-> 0, dy |-> 0, raised |-> "none"]

\* The sentinel returned when no resource remains
NoAlgaeInfo ==
    [dist |-> W + H, nearest |-> NoneIdx, dx |-> 0, dy |-> 0, raised |-> "none"]

\* get_nearest_algae_info(): (distance, index, dx, dy), or the exception raised
\* by dx/min_dist when min_dist is 0
GetNearestAlgaeInfo(ax, ay, alg) ==
    IF alg = <<>> THEN NoAlgaeInfo
    ELSE LET s == NearestScan(ax, ay, alg, 1, Inf, NoneIdx)
         IN  IF s.nearest_algae # NoneIdx
             THEN LET p == alg[s.nearest_algae + 1]
                      dx == p[1] - ax
                      dy == p[2] - ay
                  IN  IF s.min_dist = 0
                      THEN [dist |-> s.min_dist, nearest |-> s.nearest_algae,
                            dx |-> 0, dy |-> 0, raised |-> "ZeroDivisionError"]
                      ELSE [dist |-> s.min_dist, nearest |-> s.nearest_algae,
                            dx |-> Trunc(dx * DirScale, s.min_dist),
                            dy |-> Trunc(dy * DirScale, s.min_dist),
                            raised |-> "none"]
             ELSE [dist |-> s.min_dist, nearest |-> s.nearest_algae,
                   dx |-> 0, dy |-> 0, raised |-> "none"]

\* int((d + 1) * 2) clamped to 0..4, d a direction component
DirBin(d) == Max(0, Min(4, Trunc((d + DirScale) * 2, DirScale)))

\* max_dist = math.sqrt(self.width**2 + self.height**2)
max_dist == Sqrt(W * W + H * H)

\* int(min(distance / (max_dist * 0.7), 1.0) * 7)
DistBin(distance) ==
    LET den == max_dist * 7
        num == Min(distance * 10, den)
    IN  Trunc(num * 7, den)

\* get_state(): the state index, or the exception get_nearest_algae_info raised
GetState(ax, ay, alg) ==
    LET info == GetNearestAlgaeInfo(ax, ay, alg)
        st == DistBin(info.dist) * 25 + DirBin(info.dx) * 5 + DirBin(info.dy)
    IN  [state |-> Min(st, 199), raised |-> info.raised]


\* The eight directions of step(), 0 = North, clockwise
Speed == max_speed * Scale
Diag == (max_speed * Scale * 707) \div Milli
directions ==
    << <<0, Speed>>, <<Diag, Diag>>, <<Speed, 0>>, <<Diag, -Diag>>,
       <<0, -Speed>>, <<-Diag, -Diag>>, <<-Speed, 0>>, <<-Diag, Diag>> >>

\* directions[action]: Python's list indexing, which counts a negative index
\* from the end and raises IndexError outside -len..len-1; NoneIdx for a raise
ListIndex(len, i) ==
    IF 0 <= i /\ i < len THEN i
    ELSE IF -len <= i /\ i < 0 THEN i + len
    ELSE NoneIdx

\* MoveX without the lower clamp
MoveX_NoLowerClamp(x, dx) == Min(W - 3 * Scale, x + dx)

\* max(3, min(self.width-3, self.agent_x + dx))
MoveX(x, dx) == Max(3 * Scale, Min(W - 3 * Scale, x + dx))
\* max(3, min(self.height-3, self.agent_y + dy))
MoveY(y, dy) == Max(3 * Scale, Min(H - 3 * Scale, y + dy))

\* EatenAlgae with a radius of 2
EatenAlgae_SmallRadius(ax, ay, alg) ==
    {i \in 1 .. Len(alg) : Distance(ax, ay, alg[i][1], alg[i][2]) < 2 * Scale}

\* eaten_algae: the (1-based) indices of the resources with distance < 5
EatenAlgae(ax, ay, alg) ==
    {i \in 1 .. Len(alg) : Distance(ax, ay, alg[i][1], alg[i][2]) < 5 * Scale}

\* DelIndex deleting the entry after the one named
DelIndex_OffByOne(alg, i) == SubSeq(alg, 1, i) \o SubSeq(alg, i + 2, Len(alg))

\* del self.algae[i]
DelIndex(alg, i) == SubSeq(alg, 1, i - 1) \o SubSeq(alg, i + 1, Len(alg))

\* RemoveEaten deleting in ascending order of index, so that every deletion
\* shifts the indices still to be deleted
RECURSIVE RemoveEaten_Ascending(_, _)
RemoveEaten_Ascending(alg, eaten) ==
    IF eaten = {} THEN alg
    ELSE LET i == CHOOSE m \in eaten : \A k \in eaten : m <= k
         IN  RemoveEaten_Ascending(DelIndex(alg, i), eaten \ {i})

\* RemoveEaten deleting the last of the eaten resources only
RemoveEaten_LastOnly(alg, eaten) ==
    IF eaten = {} THEN alg
    ELSE DelIndex(alg, CHOOSE m \in eaten : \A k \in eaten : k <= m)

\* for i in sorted(eaten_algae, reverse=True): del self.algae[i]
RECURSIVE RemoveEaten(_, _)
RemoveEaten(alg, eaten) ==
    IF eaten = {} THEN alg
    ELSE LET i == CHOOSE m \in eaten : \A k \in eaten : k <= m
         IN  RemoveEaten(DelIndex(alg, i), eaten \ {i})

\* reward += 100 for each eaten resource
EatReward(n) == n * 100 * RScale

\* ShapingApplies without the test that nothing was eaten
ShapingApplies_AlsoWhenEaten(eaten, left) == left # <<>>

\* the condition of the reward shaping: nothing eaten and resources remain
ShapingApplies(eaten, left) == eaten = {} /\ left # <<>>

\* Shaping with the improvement taken the wrong way round
Shaping_SignFlipped(prev_distance, new_distance) ==
    ((new_distance - prev_distance) * RScale) \div (2 * Scale) - RScale \div 10

\* reward += distance_improvement * 0.5; reward -= 0.1
Shaping(prev_distance, new_distance) ==
    ((prev_distance - new_distance) * RScale) \div (2 * Scale) - RScale \div 10

\* Done with >= in place of >
Done_AtLimit(alg, n) == Len(alg) = 0 \/ n >= StepLimit

\* done = len(self.algae) == 0 or self.steps > 300
Done(alg, n) == Len(alg) = 0 \/ n > StepLimit

NoRet == [state |-> NoneIdx, reward |-> 0, done |-> FALSE]

Env(x, y, alg, sc, st, tr) ==
    [agent_x |-> x, agent_y |-> y, algae |-> alg, score |-> sc, steps |-> st,
     total_reward |-> tr]

\* ResetResult populating one resource fewer than it drew
ResetResult_OneShort(a, alg) ==
    LET less == SubSeq(alg, 1, Len(alg) - 1)
        e == Env(a[1], a[2], less, 0, 0, 0)
        s == GetState(a[1], a[2], less)
    IN  IF s.raised # "none"
        THEN [env |-> e, raised |-> s.raised, ret |-> NoRet]
        ELSE [env |-> e, raised |-> "none",
              ret |-> [state |-> s.state, reward |-> 0, done |-> FALSE]]

\* reset(), with a and alg the positions random.uniform draws: the environment
\* after the call and what the call returned or raised
ResetResult(a, alg) ==
    LET e == Env(a[1], a[2], alg, 0, 0, 0)
        s == GetState(a[1], a[2], alg)
    IN  IF s.raised # "none"
        THEN [env |-> e, raised |-> s.raised, ret |-> NoRet]
        ELSE [env |-> e, raised |-> "none",
              ret |-> [state |-> s.state, reward |-> 0, done |-> FALSE]]

\* step(action) on the environment e: the environment after the call and what
\* the call returned or raised.  A raise leaves the assignments made before it.
StepResult(e, action) ==
    LET idx == ListIndex(Len(directions), action)
    IN  IF idx = NoneIdx
        THEN [env |-> e, raised |-> "IndexError", ret |-> NoRet]
        ELSE
        LET d == directions[idx + 1]
            prev == GetNearestAlgaeInfo(e.agent_x, e.agent_y, e.algae)
        IN  IF prev.raised # "none"
            THEN [env |-> e, raised |-> prev.raised, ret |-> NoRet]
            ELSE
            LET nx == MoveX(e.agent_x, d[1])
                ny == MoveY(e.agent_y, d[2])
                eaten == EatenAlgae(nx, ny, e.algae)
                left == RemoveEaten(e.algae, eaten)
                sc == e.score + Cardinality(eaten)
                new == GetNearestAlgaeInfo(nx, ny, left)
            IN  IF ShapingApplies(eaten, left) /\ new.raised # "none"
                THEN [env |-> Env(nx, ny, left, sc, e.steps, e.total_reward),
                      raised |-> new.raised, ret |-> NoRet]
                ELSE
                LET reward == EatReward(Cardinality(eaten))
                              + (IF ShapingApplies(eaten, left)
                                 THEN Shaping(prev.dist, new.dist) ELSE 0)
                    n == e.steps + 1
                    after == Env(nx, ny, left, sc, n, e.total_reward + reward)
                    s == GetState(nx, ny, left)
                IN  IF s.raised # "none"
                    THEN [env |-> after, raised |-> s.raised, ret |-> NoRet]
                    ELSE [env |-> after, raised |-> "none",
                          ret |-> [state |-> s.state, reward |-> reward,
                                   done |-> Done(left, n)]]

TheEnv == Env(agent_x, agent_y, algae, score, steps, total_reward)

SetEnv(e) ==
    /\ agent_x' = e.agent_x
    /\ agent_y' = e.agent_y
    /\ algae' = e.algae
    /\ score' = e.score
    /\ steps' = e.steps
    /\ total_reward' = e.total_reward

\* for _ in range(self.num_algae): the lists of positions reset() draws, here
\* the spots taken in turn from each of them
AlgaeLists ==
    {[i \in 1 .. NumAlgae |-> AlgaeSpots[((i + k) % Len(AlgaeSpots)) + 1]] :
        k \in 1 .. Len(AlgaeSpots)}

----------------------------------------------------------------------------
\* ImprovedQLearningAgent

state_size == 200
action_size == 8

\* the constructor's default hyperparameters
DefaultParams ==
    [learning_rate |-> 300, discount_factor |-> 990, epsilon |-> 90000,
     epsilon_decay |-> 996, epsilon_min |-> 5000]

\* np.random.uniform(-0.01, 0.01, (state_size, action_size)): the tables drawn
InitialTables ==
    {[s \in 0 .. state_size - 1 |-> [a \in 0 .. action_size - 1 |->
        ((s + k * a) % 5) - 2]] : k \in {1, 2}}

\* a * f for a factor f given in units of 1/Milli
FixMul(a, f) == (a * f) \div Milli

\* ArgMax returning the highest index of a largest entry
ArgMax_Highest(row) ==
    CHOOSE a \in DOMAIN row :
        /\ \A b \in DOMAIN row : row[b] <= row[a]
        /\ \A b \in DOMAIN row : b > a => row[b] < row[a]

\* np.argmax(row): the lowest index of a largest entry
ArgMax(row) ==
    CHOOSE a \in DOMAIN row :
        /\ \A b \in DOMAIN row : row[b] <= row[a]
        /\ \A b \in DOMAIN row : b < a => row[b] < row[a]

\* np.max(row)
RowMax(row) == row[ArgMax(row)]

\* choose_action(state), u the draw of np.random.random() and k the draw of
\* random.randrange(self.action_size)
ChooseAction(q, eps, s, u, k) == IF u <= eps THEN k ELSE ArgMax(q[s])

\* LearnTarget with the bootstrap term added on a terminal transition too
LearnTarget_IgnoresDone(q, gamma, reward, next_state, done) ==
    reward + FixMul(RowMax(q[next_state]), gamma)

\* target = reward, or reward + discount_factor * max(q_table[next_state])
LearnTarget(q, gamma, reward, next_state, done) ==
    IF done THEN reward ELSE reward + FixMul(RowMax(q[next_state]), gamma)

\* LearnTable adding the update to every action of the state's row
LearnTable_WholeRow(q, lr, gamma, s, a, reward, next_state, done) ==
    LET target == LearnTarget(q, gamma, reward, next_state, done)
        current_q == q[s][a]
    IN  [q EXCEPT ![s] = [b \in DOMAIN q[s] |->
                             q[s][b] + FixMul(target - current_q, lr)]]

\* the table after learn(): q_table[state, action] += lr * (target - current_q)
LearnTable(q, lr, gamma, s, a, reward, next_state, done) ==
    LET target == LearnTarget(q, gamma, reward, next_state, done)
        current_q == q[s][a]
    IN  [q EXCEPT ![s][a] = q[s][a] + FixMul(target - current_q, lr)]

\* DecayEpsilon dividing by the decay factor in place of multiplying
DecayEpsilon_Divides(eps, decay, floor) ==
    IF eps > floor THEN Max(floor, (eps * Milli) \div decay) ELSE eps

\* DecayEpsilon without the floor
DecayEpsilon_NoFloor(eps, decay, floor) ==
    IF eps > floor THEN FixMul(eps, decay) ELSE eps

\* the exploration rate after learn():
\* if epsilon > epsilon_min: epsilon = max(epsilon_min, epsilon * epsilon_decay)
DecayEpsilon(eps, decay, floor) ==
    IF eps > floor THEN Max(floor, FixMul(eps, decay)) ELSE eps

\* agent.learn(s, a, reward, next_state, done)
Learn(s, a, reward, next_state, done) ==
    /\ q_table' = LearnTable(q_table, learning_rate, discount_factor,
                             s, a, reward, next_state, done)
    /\ epsilon' = DecayEpsilon(epsilon, epsilon_decay, epsilon_min)
    /\ UNCHANGED <<learning_rate, discount_factor, epsilon_decay, epsilon_min>>

----------------------------------------------------------------------------
\* The environment, called from outside the training loop

\* the arguments of a call that takes none
NoArgs == <<>>

\* no statistics dashboard: main.py does not construct one
NoData == <<>>
NoCharts == [nutrition |-> 0, temperature |-> 0, fish |-> 0, plant |-> 0]

\* a dict with no key
EmptyDict == <<>>

\* fish_controller.py as imported: the globals at their initial values
IdleFish ==
    /\ fish_brains = EmptyDict
    /\ frame_counter = 0
    /\ next_fish_id = 0
    /\ shutdown_requested = FALSE
    /\ reproduction_tracking = EmptyDict

IdleStats ==
    /\ running = FALSE
    /\ update_thread = 0
    /\ threaded = FALSE
    /\ simulation_connected = FALSE
    /\ time_points = <<>>
    /\ total_environmental_nutrition = <<>>
    /\ fish_count = <<>>
    /\ plant_count = <<>>
    /\ temperature_data = <<>>
    /\ bleached_count_data = <<>>
    /\ connection_label = ""
    /\ info_text = <<>>
    /\ charts = NoCharts
    /\ after_queue = <<>>
    /\ poll_pc = "none"
    /\ polled = NoData
    /\ last_data_hash = NoData

IdleVisualizer ==
    /\ scores = <<>>
    /\ epsilons = <<>>
    /\ avg_rewards = <<>>
    /\ agent_trail = <<>>

IdleLoop(p) ==
    /\ pc = p
    /\ episode = 0
    /\ state = NoneIdx
    /\ step_count = 0
    /\ old_epsilon = 0

\* AlgaeEnvironment(): __init__ ends with reset(); the object exists when
\* reset() did not raise
InitEnv ==
    /\ \E a \in AgentStarts, alg \in AlgaeLists :
          LET r == ResetResult(a, alg)
          IN  /\ r.raised = "none"
              /\ agent_x = r.env.agent_x
              /\ agent_y = r.env.agent_y
              /\ algae = r.env.algae
              /\ score = r.env.score
              /\ steps = r.env.steps
              /\ total_reward = r.env.total_reward
              /\ ret = r.ret
    /\ op = "init"
    /\ args = NoArgs
    /\ err = "none"
    /\ q_table = CHOOSE t \in InitialTables : TRUE
    /\ learning_rate = DefaultParams.learning_rate
    /\ discount_factor = DefaultParams.discount_factor
    /\ epsilon = DefaultParams.epsilon
    /\ epsilon_decay = DefaultParams.epsilon_decay
    /\ epsilon_min = DefaultParams.epsilon_min
    /\ epsilon_initial = DefaultParams.epsilon
    /\ IdleVisualizer
    /\ IdleLoop("env")
    /\ IdleStats
    /\ IdleFish

\* env.reset(), called as the training loop calls it: to begin the next
\* episode, or after a call that raised
CallReset ==
    /\ ret.done \/ err # "none"
    /\ \E a \in AgentStarts, alg \in AlgaeLists :
          \E r \in {ResetResult(a, alg)} :
              /\ SetEnv(r.env)
              /\ ret' = r.ret
              /\ err' = r.raised
    /\ op' = "reset"
    /\ args' = NoArgs
    /\ UNCHANGED <<agentVars, visVars, loopVars, epsilon_initial, statsVars, fishVars>>

\* env.step(action)
CallStep ==
    /\ steps <= StepLimit
    /\ \E action \in CalledActions :
          \E r \in {StepResult(TheEnv, action)} :
              /\ SetEnv(r.env)
              /\ ret' = r.ret
              /\ err' = r.raised
              /\ args' = [action |-> action]
    /\ op' = "step"
    /\ UNCHANGED <<agentVars, visVars, loopVars, epsilon_initial, statsVars, fishVars>>

NextEnv == CallReset \/ CallStep

SpecEnv == InitEnv /\ [][NextEnv]_vars


----------------------------------------------------------------------------
\* Properties of the environment, checked under SpecEnv

\* the squared distance, for stating a radius without the square root
Dist2(x, y, p) == (x - p[1]) * (x - p[1]) + (y - p[2]) * (y - p[2])

\* the least distance from (x, y) to a resource of the non-empty list alg
NearestDistance(x, y, alg) ==
    CHOOSE d \in {Distance(x, y, alg[i][1], alg[i][2]) : i \in 1 .. Len(alg)} :
        \A j \in 1 .. Len(alg) : d <= Distance(x, y, alg[j][1], alg[j][2])

\* C1: with at least one resource left, get_state() returns a state index in
\* 0..199 and raises nothing, wherever the agent and the resources are.
C1_GetStateInRange ==
    algae # <<>> =>
        /\ GetState(agent_x, agent_y, algae).raised = "none"
        /\ GetState(agent_x, agent_y, algae).state \in 0 .. 199

\* C2: in every state of an episode the agent is at least 3 units inside the
\* field: 3 <= x <= width-3 and 3 <= y <= height-3.
C2_AgentInField ==
    /\ 3 * Scale <= agent_x /\ agent_x <= W - 3 * Scale
    /\ 3 * Scale <= agent_y /\ agent_y <= H - 3 * Scale

\* a step to the West that the lower clamp cut short
C2_Clamped ==
    /\ op = "step" /\ err = "none" /\ args.action = 6
    /\ agent_x = 3 * Scale

\* C3: step() returns done = True exactly when, after the step, no resource
\* remains or the step count exceeds the limit.
C3_DoneExactly ==
    (op = "step" /\ err = "none") =>
        (ret.done <=> (Len(algae) = 0 \/ steps > StepLimit))

\* an episode that ended on the step limit, resources left
C3_DoneByLimit ==
    /\ op = "step" /\ err = "none" /\ ret.done
    /\ algae # <<>> /\ steps = StepLimit + 1

\* C4: a step after whose move exactly one resource is within the radius of 5
\* removes one resource, adds 1 to the score and returns the reward 100.
C4_EatOne ==
    [][(/\ op' = "step" /\ err' = "none"
        /\ Cardinality({i \in 1 .. Len(algae) :
              Dist2(agent_x', agent_y', algae[i]) < (5 * Scale) * (5 * Scale)}) = 1)
       => (/\ Len(algae') = Len(algae) - 1
           /\ score' = score + 1
           /\ ret'.reward = 100 * RScale)]_vars

\* a step has just eaten one of two resources
C4_AteOne ==
    /\ op = "step" /\ err = "none"
    /\ Len(algae) = NumAlgae - 1 /\ score = 1 /\ ret.reward = 100 * RScale

\* C5: a step that eats nothing while resources remain returns
\* 0.5 * (nearest distance before the move - nearest distance after) - 0.1.
C5_ShapedReward ==
    [][(/\ op' = "step" /\ err' = "none"
        /\ Len(algae') = Len(algae) /\ algae' # <<>>)
       => ret'.reward =
             ((NearestDistance(agent_x, agent_y, algae)
                 - NearestDistance(agent_x', agent_y', algae')) * RScale)
                \div (2 * Scale) - RScale \div 10]_vars

\* a step that ate nothing and came closer to the nearest resource
C5_CameCloser ==
    /\ op = "step" /\ err = "none"
    /\ Len(algae) = NumAlgae /\ score = 0 /\ ret.reward > 0

\* C9: step() with an action index outside 0..7 raises, and leaves the
\* environment as it was.
C9_OutOfRangeRaises ==
    [][(op' = "step" /\ args'.action \notin 0 .. 7)
       => (err' # "none" /\ envVars' = envVars)]_vars

\* C10: with no resource left get_state() is the same state wherever the
\* agent is (distance bin 7, both direction components 0, so both direction
\* bins 2), and get_nearest_algae_info() reports no index.
C10_Sentinel ==
    algae = <<>> =>
        /\ GetState(agent_x, agent_y, algae) =
              [state |-> 7 * 25 + 2 * 5 + 2, raised |-> "none"]
        /\ GetNearestAlgaeInfo(agent_x, agent_y, algae).nearest = NoneIdx
        /\ GetNearestAlgaeInfo(agent_x, agent_y, algae).dx = 0
        /\ GetNearestAlgaeInfo(agent_x, agent_y, algae).dy = 0
        /\ (op = "step" /\ err = "none") => ret.state = 7 * 25 + 2 * 5 + 2

\* the last resource has just been eaten
C10_AllEaten ==
    /\ op = "step" /\ err = "none" /\ algae = <<>> /\ score = NumAlgae


----------------------------------------------------------------------------
\* The agent, constructed with any hyperparameters and called from outside the
\* training loop

\* calls made to the agent in one run
MaxCalls == 2

\* hyperparameters the constructor is given: the defaults, a rate that starts
\* just above the floor, a rate that starts below it, a decay factor above 1
AgentParams ==
    {DefaultParams,
     [DefaultParams EXCEPT !.epsilon = 5010],
     [DefaultParams EXCEPT !.epsilon = 1000],
     [DefaultParams EXCEPT !.epsilon = 50000, !.epsilon_decay = 1500]}

\* the transitions learn() is called with
LearnStates == {0, 187}
LearnActions == {0, 7}
LearnRewards == {-28, 100 * RScale}
\* the draws of np.random.random(), in units of 1/EScale, and of
\* random.randrange(action_size)
RandomDraws == {0, 95000}
RandomActions == {1}
\* the draws of random.randrange(action_size) when the agent is called from
\* outside the training loop: the ends of the range as well
CalledRandomActions == RandomActions \cup {0, action_size - 1}

IdleEnv ==
    /\ agent_x = 1000
    /\ agent_y = 1000
    /\ algae = <<>>
    /\ score = 0
    /\ steps = 0
    /\ total_reward = 0

\* ImprovedQLearningAgent(...)
InitAgent ==
    /\ \E p \in AgentParams :
          /\ learning_rate = p.learning_rate
          /\ discount_factor = p.discount_factor
          /\ epsilon = p.epsilon
          /\ epsilon_decay = p.epsilon_decay
          /\ epsilon_min = p.epsilon_min
          /\ epsilon_initial = p.epsilon
    /\ q_table \in InitialTables
    /\ op = "init"
    /\ args = NoArgs
    /\ ret = NoRet
    /\ err = "none"
    /\ IdleEnv
    /\ IdleVisualizer
    /\ IdleLoop("agent")
    /\ IdleStats
    /\ IdleFish

\* agent.learn(state, action, reward, next_state, done)
CallLearn ==
    /\ step_count < MaxCalls
    /\ \E s \in LearnStates, a \in LearnActions, r \in LearnRewards,
          ns \in LearnStates, d \in BOOLEAN :
          /\ Learn(s, a, r, ns, d)
          /\ args' = [state |-> s, action |-> a, reward |-> r,
                      next_state |-> ns, done |-> d]
    /\ op' = "learn"
    /\ ret' = NoRet
    /\ step_count' = step_count + 1
    /\ UNCHANGED <<envVars, visVars, pc, episode, state, old_epsilon, err,
                   epsilon_initial, statsVars, fishVars>>

\* agent.choose_action(state); random.randrange is called, and k drawn, on the
\* exploring branch only
CallChooseAction ==
    /\ step_count < MaxCalls
    /\ \E s \in LearnStates, u \in RandomDraws, k \in CalledRandomActions :
          /\ ret' = [state |-> NoneIdx, reward |-> 0, done |-> FALSE,
                     action |-> ChooseAction(q_table, epsilon, s, u, k)]
          /\ args' = [state |-> s, u |-> u,
                      k |-> IF u <= epsilon THEN k ELSE NoneIdx]
    /\ op' = "choose_action"
    /\ step_count' = step_count + 1
    /\ UNCHANGED <<envVars, agentVars, visVars, pc, episode, state,
                   old_epsilon, err, epsilon_initial, statsVars, fishVars>>

NextAgent == CallLearn \/ CallChooseAction

SpecAgent == InitAgent /\ [][NextAgent]_vars

\* C16: on the greedy branch choose_action(state) returns the lowest action
\* index whose value in the table's row for state is the largest of the row;
\* on either branch the action returned is in 0..action_size-1.
C16_ChooseAction ==
    [][op' = "choose_action" =>
          LET row == q_table[args'.state]
              a == ret'.action
          IN  /\ a \in 0 .. action_size - 1
              /\ args'.u > epsilon =>
                    /\ \A b \in 0 .. action_size - 1 : row[b] <= row[a]
                    /\ \A b \in 0 .. a - 1 : row[b] < row[a]]_vars

\* the greedy branch has chosen among several actions of the largest value
C16_TieBrokenLow ==
    /\ op = "choose_action" /\ args.u > epsilon
    /\ \E b \in 0 .. action_size - 1 :
          /\ b > ret.action
          /\ q_table[args.state][b] = q_table[args.state][ret.action]

\* the largest entry of a table row
MaxOf(row) == CHOOSE m \in {row[b] : b \in DOMAIN row} : \A b \in DOMAIN row : row[b] <= m

\* C6: learn(s, a, r, s', done) sets value_table[s, a] to
\* old + learning_rate * (target - old), where target is r when done and
\* r + discount_factor * max_a' value_table[s', a'] otherwise, the maximum
\* taken in the table as it was before the call.
C6_LearnUpdate ==
    [][op' = "learn" =>
        LET old == q_table[args'.state][args'.action]
            target == IF args'.done THEN args'.reward
                      ELSE args'.reward
                           + (MaxOf(q_table[args'.next_state]) * discount_factor)
                                \div Milli
        IN  q_table'[args'.state][args'.action]
               = old + ((target - old) * learning_rate) \div Milli]_vars

\* a non-terminal transition from a state to itself has been learned
C6_LearnedSelfLoop ==
    /\ op = "learn" /\ ~args.done /\ args.next_state = args.state
    /\ args.reward = 100 * RScale
    /\ q_table[args.state][args.action] > 100

\* the hyperparameters for which the exploration rate decays toward its floor
SoundParams ==
    /\ 0 <= epsilon_decay /\ epsilon_decay <= Milli
    /\ 0 <= epsilon_min /\ epsilon_min <= epsilon_initial

\* C7 as stated: for any hyperparameters, a learn() call leaves the
\* exploration rate no larger than before and not below epsilon_min, and
\* applies the decay once, whatever the reward.
C7_DecayAnyParams ==
    [][op' = "learn" =>
        /\ epsilon' <= epsilon
        /\ epsilon' >= epsilon_min
        /\ epsilon' = Max(epsilon_min, (epsilon * epsilon_decay) \div Milli)]_vars

\* C7, amended: the same for hyperparameters with 0 <= epsilon_decay <= 1 and
\* 0 <= epsilon_min <= epsilon.
C7_DecaySoundParams ==
    [][(op' = "learn" /\ SoundParams) =>
        /\ epsilon' <= epsilon
        /\ epsilon' >= epsilon_min
        /\ epsilon' = Max(epsilon_min, (epsilon * epsilon_decay) \div Milli)]_vars

\* the rate has decayed onto its floor
C7_AtFloor ==
    /\ op = "learn" /\ SoundParams
    /\ epsilon = epsilon_min /\ epsilon < epsilon_initial


----------------------------------------------------------------------------
\* The program: train_with_live_visualization(), then demo_trained_agent()

\* episodes of training (1000 in the program) and of the demo (3)
Episodes == 2
DemoEpisodes == 1
\* the demo's own step budget (150 in the program, half the environment's)
DemoStepLimit == 1
\* steps_per_update, as the program passes it
steps_per_update == 2
\* deque(maxlen=15)
TrailMax == 15

\* self.agent_trail.append((env.agent_x, env.agent_y)) on a deque(maxlen=15)
TrailAppend(trail, x, y) ==
    LET t == Append(trail, <<x, y>>)
    IN  IF Len(t) > TrailMax THEN SubSeq(t, 2, Len(t)) ELSE t

\* avg_reward = env.total_reward / env.steps if env.steps > 0 else 0
AvgReward(total, n) == IF n > 0 THEN Trunc(total, n) ELSE 0

\* the visualizer's data
Vis(sc, ep, av, tr) ==
    [scores |-> sc, epsilons |-> ep, avg_rewards |-> av, agent_trail |-> tr]

TheVis == Vis(scores, epsilons, avg_rewards, agent_trail)

SetVis(v) ==
    /\ scores' = v.scores
    /\ epsilons' = v.epsilons
    /\ avg_rewards' = v.avg_rewards
    /\ agent_trail' = v.agent_trail

\* EpisodeFinished leaving the average reward out
EpisodeFinished_NoAvgReward(v, sc, eps, avg) ==
    Vis(Append(v.scores, sc), Append(v.epsilons, eps), v.avg_rewards, <<>>)

\* episode_finished(score, epsilon, avg_reward) on the visualizer v
EpisodeFinished(v, sc, eps, avg) ==
    Vis(Append(v.scores, sc), Append(v.epsilons, eps),
        Append(v.avg_rewards, avg), <<>>)

\* UpdateDisplay counting the redraw as a step of the episode
UpdateDisplay_CountsStep(v, e) ==
    [vis |-> [v EXCEPT !.agent_trail = TrailAppend(v.agent_trail, e.agent_x, e.agent_y)],
     env |-> [e EXCEPT !.steps = e.steps + 1],
     raised |-> "none"]

\* update_display(env, agent, episode, current_reward) on the visualizer v:
\* the visualizer and the environment after the call, and what it raised.
\* The trail grows first; the plots read the environment, the line to the
\* nearest resource through env.get_nearest_algae_info(), and the agent's
\* epsilon and learning_rate for the statistics text.
UpdateDisplay(v, e) ==
    LET shown == [v EXCEPT !.agent_trail =
                      TrailAppend(v.agent_trail, e.agent_x, e.agent_y)]
        info == IF e.algae # <<>>
                THEN GetNearestAlgaeInfo(e.agent_x, e.agent_y, e.algae)
                ELSE NoAlgaeInfo
    IN  [vis |-> shown, env |-> e, raised |-> info.raised]

\* what reset() draws in the program's runs: an agent start and a resource
\* list that begins at the first or at the third spot
ProgramDraws ==
    {d \in AgentStarts \X AlgaeLists : d[2][1] \in {AlgaeSpots[1], AlgaeSpots[3]}}

\* the state after AlgaeEnvironment(), ImprovedQLearningAgent() and
\* LiveTrainingVisualizer(); the program ends there when reset() raised
Init ==
    /\ \E d \in ProgramDraws :
          \E r \in {ResetResult(d[1], d[2])} :
              /\ agent_x = r.env.agent_x
              /\ agent_y = r.env.agent_y
              /\ algae = r.env.algae
              /\ score = r.env.score
              /\ steps = r.env.steps
              /\ total_reward = r.env.total_reward
              /\ ret = r.ret
              /\ err = r.raised
              /\ pc = IF r.raised = "none" THEN "train" ELSE "crashed"
    /\ op = "init"
    /\ args = NoArgs
    /\ q_table \in InitialTables
    /\ learning_rate = DefaultParams.learning_rate
    /\ discount_factor = DefaultParams.discount_factor
    /\ epsilon = DefaultParams.epsilon
    /\ epsilon_decay = DefaultParams.epsilon_decay
    /\ epsilon_min = DefaultParams.epsilon_min
    /\ epsilon_initial = DefaultParams.epsilon
    /\ IdleVisualizer
    /\ episode = 0
    /\ state = NoneIdx
    /\ step_count = 0
    /\ old_epsilon = 0
    /\ IdleStats
    /\ IdleFish

\* for episode in range(episodes): state = env.reset(); step_count = 0
TrainReset ==
    /\ pc = "train"
    /\ episode < Episodes
    /\ \E d \in ProgramDraws :
          \E r \in {ResetResult(d[1], d[2])} :
              /\ SetEnv(r.env)
              /\ ret' = r.ret
              /\ err' = r.raised
              /\ IF r.raised = "none"
                 THEN /\ state' = r.ret.state
                      /\ step_count' = 0
                      /\ pc' = "loop"
                 ELSE /\ pc' = "crashed"
                      /\ UNCHANGED <<state, step_count>>
    /\ op' = "reset"
    /\ args' = NoArgs
    /\ UNCHANGED <<agentVars, visVars, episode, old_epsilon, epsilon_initial, statsVars, fishVars>>

\* one pass of the while loop: choose_action, step, learn, the throttled
\* update_display, and the break on done
TrainStep ==
    /\ pc = "loop"
    /\ \E u \in RandomDraws, k \in RandomActions :
          \E action \in {ChooseAction(q_table, epsilon, state, u, k)} :
          \E r \in {StepResult(TheEnv, action)} :
              /\ ret' = r.ret
              /\ args' = [action |-> action]
              /\ IF r.raised = "none"
                 THEN /\ Learn(state, action, r.ret.reward, r.ret.state, r.ret.done)
                      /\ state' = r.ret.state
                      /\ step_count' = step_count + 1
                      /\ IF \/ (step_count + 1) % steps_per_update = 0
                            \/ r.ret.reward > 50 * RScale
                            \/ r.ret.done
                         THEN \E d \in {UpdateDisplay(TheVis, r.env)} :
                                 /\ SetVis(d.vis)
                                 /\ SetEnv(d.env)
                                 /\ err' = d.raised
                                 /\ pc' = IF d.raised # "none" THEN "crashed"
                                          ELSE IF r.ret.done THEN "finished"
                                          ELSE "loop"
                         ELSE /\ SetEnv(r.env)
                              /\ err' = r.raised
                              /\ pc' = IF r.ret.done THEN "finished" ELSE "loop"
                              /\ UNCHANGED visVars
                 ELSE /\ SetEnv(r.env)
                      /\ err' = r.raised
                      /\ pc' = "crashed"
                      /\ UNCHANGED <<agentVars, visVars, state, step_count>>
    /\ op' = "step"
    /\ UNCHANGED <<episode, old_epsilon, epsilon_initial, statsVars, fishVars>>

\* after the loop: visualizer.episode_finished(...), then update_display(...)
TrainEpisodeFinished ==
    /\ pc = "finished"
    /\ \E d \in {UpdateDisplay(EpisodeFinished(TheVis, score, epsilon,
                                    AvgReward(total_reward, steps)), TheEnv)} :
          /\ SetVis(d.vis)
          /\ SetEnv(d.env)
          /\ err' = d.raised
          /\ IF d.raised = "none"
             THEN episode' = episode + 1 /\ pc' = "train"
             ELSE episode' = episode /\ pc' = "crashed"
    /\ op' = "episode_finished"
    /\ args' = NoArgs
    /\ UNCHANGED <<agentVars, state, step_count, old_epsilon, ret,
                   epsilon_initial, statsVars, fishVars>>

\* training is over; demo_trained_agent() begins with env = AlgaeEnvironment()
DemoBegin ==
    /\ pc = "train"
    /\ episode = Episodes
    /\ \E d \in ProgramDraws :
          \E r \in {ResetResult(d[1], d[2])} :
              /\ SetEnv(r.env)
              /\ ret' = r.ret
              /\ err' = r.raised
              /\ pc' = IF r.raised = "none" THEN "demo" ELSE "crashed"
    /\ episode' = 0
    /\ op' = "init"
    /\ args' = NoArgs
    /\ UNCHANGED <<agentVars, visVars, state, step_count, old_epsilon,
                   epsilon_initial, statsVars, fishVars>>

\* for episode in range(episodes): state = env.reset();
\* old_epsilon = agent.epsilon; agent.epsilon = 0; step_count = 0
DemoReset ==
    /\ pc = "demo"
    /\ episode < DemoEpisodes
    /\ \E d \in ProgramDraws :
          \E r \in {ResetResult(d[1], d[2])} :
              /\ SetEnv(r.env)
              /\ ret' = r.ret
              /\ err' = r.raised
              /\ IF r.raised = "none"
                 THEN /\ state' = r.ret.state
                      /\ old_epsilon' = epsilon
                      /\ epsilon' = 0
                      /\ step_count' = 0
                      /\ pc' = "demo_loop"
                 ELSE /\ pc' = "crashed"
                      /\ UNCHANGED <<state, old_epsilon, epsilon, step_count>>
    /\ op' = "reset"
    /\ args' = NoArgs
    /\ UNCHANGED <<q_table, learning_rate, discount_factor, epsilon_decay,
                   epsilon_min, visVars, episode, epsilon_initial, statsVars, fishVars>>

\* one pass of the demo's while loop: choose_action, step, and the break on
\* done or step_count > 150
DemoStep ==
    /\ pc = "demo_loop"
    /\ \E u \in RandomDraws, k \in RandomActions :
          \E action \in {ChooseAction(q_table, epsilon, state, u, k)} :
          \E r \in {StepResult(TheEnv, action)} :
              /\ SetEnv(r.env)
              /\ ret' = r.ret
              /\ err' = r.raised
              /\ args' = [action |-> action]
              /\ IF r.raised = "none"
                 THEN /\ state' = r.ret.state
                      /\ step_count' = step_count + 1
                      /\ pc' = IF r.ret.done \/ step_count + 1 > DemoStepLimit
                               THEN "demo_end" ELSE "demo_loop"
                 ELSE /\ pc' = "crashed"
                      /\ UNCHANGED <<state, step_count>>
    /\ op' = "step"
    /\ UNCHANGED <<agentVars, visVars, episode, old_epsilon, epsilon_initial, statsVars, fishVars>>

\* DemoEpisodeEnd leaving the exploration rate at the demo's 0
DemoEpisodeEnd_NoRestore ==
    /\ pc = "demo_end"
    /\ episode' = episode + 1
    /\ pc' = "demo"
    /\ op' = "demo_episode_end"
    /\ args' = NoArgs
    /\ UNCHANGED <<envVars, agentVars, visVars, state, step_count,
                   old_epsilon, ret, err, epsilon_initial, statsVars, fishVars>>

\* the end of a demo episode: agent.epsilon = old_epsilon
DemoEpisodeEnd ==
    /\ pc = "demo_end"
    /\ epsilon' = old_epsilon
    /\ episode' = episode + 1
    /\ pc' = "demo"
    /\ op' = "demo_episode_end"
    /\ args' = NoArgs
    /\ UNCHANGED <<envVars, q_table, learning_rate, discount_factor,
                   epsilon_decay, epsilon_min, visVars, state, step_count,
                   old_epsilon, ret, err, epsilon_initial, statsVars, fishVars>>

\* plt.show(): the program is over
DemoEnd ==
    /\ pc = "demo"
    /\ episode = DemoEpisodes
    /\ pc' = "exit"
    /\ op' = "exit"
    /\ args' = NoArgs
    /\ UNCHANGED <<envVars, agentVars, visVars, episode, state, step_count,
                   old_epsilon, ret, err, epsilon_initial, statsVars, fishVars>>

Next ==
    \/ TrainReset
    \/ TrainStep
    \/ TrainEpisodeFinished
    \/ DemoBegin
    \/ DemoReset
    \/ DemoStep
    \/ DemoEpisodeEnd
    \/ DemoEnd

Spec == Init /\ [][Next]_vars

\* C8 as stated: in every state of the program the exploration rate is at
\* most its initial value and at least exploration_min.
C8_EpsilonInRange ==
    /\ epsilon <= epsilon_initial
    /\ epsilon >= epsilon_min

\* C8, amended: the exploration rate is never above its initial value; it is
\* at least exploration_min except inside a demo episode, where
\* demo_trained_agent holds it at 0 and keeps the training value, itself at
\* least exploration_min, to restore.
C8_EpsilonInRangeOutsideDemo ==
    /\ epsilon <= epsilon_initial
    /\ pc \notin {"demo_loop", "demo_end"} => epsilon >= epsilon_min
    /\ pc \in {"demo_loop", "demo_end"} =>
          /\ epsilon = 0
          /\ epsilon_min <= old_epsilon /\ old_epsilon <= epsilon_initial

\* a demo episode is running on an agent whose rate training has decayed
C8_InDemo ==
    /\ pc = "demo_loop" /\ op = "step"
    /\ epsilon = 0 /\ old_epsilon < epsilon_initial

\* a point random.uniform(10, width-10), random.uniform(10, height-10) can draw
InMargin(p) ==
    /\ 10 * Scale <= p[1] /\ p[1] <= W - 10 * Scale
    /\ 10 * Scale <= p[2] /\ p[2] <= H - 10 * Scale

\* C11: after reset(), whatever the episode before it, steps = 0, score = 0
\* and the episode's reward total = 0, and the environment holds exactly
\* num_algae resources, every one inside the field margin.
C11_ResetRestores ==
    op = "reset" =>
        /\ steps = 0 /\ score = 0 /\ total_reward = 0
        /\ Len(algae) = NumAlgae
        /\ \A i \in 1 .. Len(algae) : InMargin(algae[i])

\* reset() has begun a new episode after one in which resources were eaten
C11_ResetAfterEpisode ==
    /\ op = "reset" /\ err = "none" /\ pc = "loop"
    /\ Len(scores) >= 1 /\ scores[Len(scores)] >= 1
    /\ score = 0 /\ steps = 0 /\ Len(algae) = NumAlgae

----------------------------------------------------------------------------
\* The environment with the resources placed by the caller:
\* env = AlgaeEnvironment(width=100, height=100, num_algae=n), then
\* env.algae = [...] around the agent's start

\* the lists placed, each resource given as its offset from the agent: a
\* single resource inside the radius of 5 (straight ahead, to the side,
\* diagonal, almost on the agent), on the agent, outside the radius; and
\* lists where two resources lie within one move's reach among others that
\* do not
PlacedOffsets ==
    {<< <<0, 490>> >>, << <<400, 0>> >>, << <<-300, -300>> >>,
     << <<10, 0>> >>, << <<0, 0>> >>, << <<600, 0>> >>,
     << <<0, 3000>>, <<0, 400>>, <<3000, 0>>, <<200, 400>> >>,
     << <<0, 400>>, <<200, 400>>, <<0, 3000>> >>}

PlaceAt(a, offs) ==
    [i \in 1 .. Len(offs) |-> <<a[1] + offs[i][1], a[2] + offs[i][2]>>]

InitPlaced ==
    /\ \E a \in AgentStarts, offs \in PlacedOffsets :
          /\ agent_x = a[1]
          /\ agent_y = a[2]
          /\ algae = PlaceAt(a, offs)
    /\ score = 0
    /\ steps = 0
    /\ total_reward = 0
    /\ op = "init"
    /\ args = NoArgs
    /\ ret = NoRet
    /\ err = "none"
    /\ q_table = CHOOSE t \in InitialTables : TRUE
    /\ learning_rate = DefaultParams.learning_rate
    /\ discount_factor = DefaultParams.discount_factor
    /\ epsilon = DefaultParams.epsilon
    /\ epsilon_decay = DefaultParams.epsilon_decay
    /\ epsilon_min = DefaultParams.epsilon_min
    /\ epsilon_initial = DefaultParams.epsilon
    /\ IdleVisualizer
    /\ IdleLoop("placed")
    /\ IdleStats
    /\ IdleFish

NextPlaced == CallStep

SpecPlaced == InitPlaced /\ [][NextPlaced]_vars

\* the squared consumption radius
Radius2 == (5 * Scale) * (5 * Scale)

\* C12: in a 100 x 100 environment with a single resource less than the
\* radius of 5 from the agent's start, the first step() whose action brings
\* the agent nearer to the resource returns done = True and leaves score = 1.
C12_FirstStepEats ==
    [][(/\ op = "init" /\ op' = "step"
        /\ W = 100 * Scale /\ H = 100 * Scale
        /\ Len(algae) = 1 /\ steps = 0 /\ score = 0
        /\ Dist2(agent_x, agent_y, algae[1]) < Radius2
        /\ args'.action \in 0 .. 7
        /\ Dist2(agent_x', agent_y', algae[1]) < Dist2(agent_x, agent_y, algae[1]))
       => (err' = "none" /\ ret'.done /\ score' = 1 /\ algae' = <<>>)]_vars

\* the first step, to the North, has eaten the only resource
C12_AteThePlaced ==
    /\ op = "step" /\ err = "none" /\ args.action = 0
    /\ steps = 1 /\ score = 1 /\ algae = <<>> /\ ret.done

\* C17: when a step eats several resources, exactly the resources within the
\* radius of 5 of the agent's new position leave the list, every other
\* resource stays with its position and in its order, and the score rises by
\* the number removed.
C17_EatSeveral ==
    [][LET x == agent_x'
           y == agent_y'
           Near(p) == Dist2(x, y, p) < Radius2
           Far(p) == ~Near(p)
           n == Cardinality({i \in 1 .. Len(algae) : Near(algae[i])})
       IN  (op' = "step" /\ err' = "none" /\ n >= 2)
           => (/\ algae' = SelectSeq(algae, Far)
               /\ score' = score + n)]_vars

\* one step has eaten two resources of four; the two left are the first and
\* the third of the list placed
C17_AteTwoOfFour ==
    /\ op = "step" /\ err = "none" /\ steps = 1 /\ score = 2
    /\ Len(algae) = 2
    /\ algae[1] = <<agent_x, agent_y - 3 * Scale + 30 * Scale>>
    /\ algae[2] = <<agent_x + 30 * Scale, agent_y - 3 * Scale>>

----------------------------------------------------------------------------
\* Properties of the program's histories, checked under Spec

\* the sequence s is an initial part of the sequence t
IsPrefix(s, t) ==
    /\ Len(s) <= Len(t)
    /\ \A i \in 1 .. Len(s) : t[i] = s[i]

\* C13: the three histories of the visualizer always have one length; while
\* the training loop runs that length is the number of episodes completed;
\* and a history only ever grows at its end.
C13_Histories ==
    /\ [](/\ Len(scores) = Len(epsilons)
          /\ Len(epsilons) = Len(avg_rewards)
          /\ pc \in {"train", "loop", "finished"} => Len(scores) = episode)
    /\ [][/\ IsPrefix(scores, scores')
          /\ IsPrefix(epsilons, epsilons')
          /\ IsPrefix(avg_rewards, avg_rewards')]_vars

\* the last episode of training has just been recorded
C13_AllRecorded ==
    /\ op = "episode_finished" /\ pc = "train"
    /\ episode = Episodes /\ Len(avg_rewards) = Episodes

\* where the program has no statement left to run
Halted == {"crashed", "exit"}

\* A step of the program, told by the two variables every statement changes:
\* each action of Next moves the program counter or sets the loop's step
\* counter to 0 or one higher, and Next is enabled exactly while the program
\* counter is outside Halted.
Advance ==
    /\ pc \notin Halted
    /\ pc' \in {"train", "loop", "finished", "demo", "demo_loop", "demo_end"}
                  \cup Halted
    /\ step_count' \in {0, step_count, step_count + 1}

\* C18: throughout training a learn() call changes at most the table's entry
\* for (state, action) and the exploration rate: every other entry, the
\* table's shape of 200 rows of 8 and the four hyperparameters stay.
C18_LearnFrame ==
    [][(pc = "loop" /\ pc' \in {"loop", "finished"}) =>
          /\ q_table' = [q_table EXCEPT ![state][args'.action] =
                                            q_table'[state][args'.action]]
          /\ DOMAIN q_table' = 0 .. 199
          /\ \A s \in DOMAIN q_table' : DOMAIN q_table'[s] = 0 .. 7
          /\ <<learning_rate, discount_factor, epsilon_decay, epsilon_min>>'
                = <<learning_rate, discount_factor, epsilon_decay, epsilon_min>>]_vars

\* learn() has been called in two episodes and has written to the table
C18_Learned ==
    /\ op = "step" /\ pc = "loop" /\ episode = 1
    /\ q_table \notin InitialTables
    /\ epsilon < epsilon_initial

\* the program under the interpreter's scheduling: while it has a statement
\* to run, it runs one
FairSpec == Spec /\ WF_<<pc, step_count>>(Advance)

\* C14: train_with_live_visualization(episodes = N) comes to its end with
\* exactly N episodes recorded, and no episode makes more than 301 calls of
\* step() (the step limit plus one).
C14_TrainingTerminates ==
    /\ <>(pc = "train" /\ episode = Episodes /\ Len(scores) = Episodes)
    /\ [](Len(scores) <= Episodes)
    /\ [](pc \in {"loop", "finished"} =>
             (step_count <= StepLimit + 1 /\ steps = step_count))

----------------------------------------------------------------------------
\* The visualizer, called from outside the training loop on an environment
\* as constructed

\* calls made to the visualizer in one run
VisCalls == 3

\* the scores episode_finished() is called with
FinishedScores == {0, NumAlgae}

\* LiveTrainingVisualizer(), beside an environment and an agent
InitVis ==
    /\ \E a \in AgentStarts, alg \in AlgaeLists :
          LET r == ResetResult(a, alg)
          IN  /\ r.raised = "none"
              /\ agent_x = r.env.agent_x
              /\ agent_y = r.env.agent_y
              /\ algae = r.env.algae
              /\ score = r.env.score
              /\ steps = r.env.steps
              /\ total_reward = r.env.total_reward
              /\ ret = r.ret
    /\ op = "init"
    /\ args = NoArgs
    /\ err = "none"
    /\ q_table = CHOOSE t \in InitialTables : TRUE
    /\ learning_rate = DefaultParams.learning_rate
    /\ discount_factor = DefaultParams.discount_factor
    /\ epsilon = DefaultParams.epsilon
    /\ epsilon_decay = DefaultParams.epsilon_decay
    /\ epsilon_min = DefaultParams.epsilon_min
    /\ epsilon_initial = DefaultParams.epsilon
    /\ IdleVisualizer
    /\ IdleLoop("vis")
    /\ IdleStats
    /\ IdleFish

\* visualizer.update_display(env, agent, episode, reward)
CallUpdateDisplay ==
    /\ step_count < VisCalls
    /\ \E d \in {UpdateDisplay(TheVis, TheEnv)} :
          /\ SetVis(d.vis)
          /\ SetEnv(d.env)
          /\ err' = d.raised
    /\ op' = "update_display"
    /\ args' = NoArgs
    /\ step_count' = step_count + 1
    /\ UNCHANGED <<agentVars, pc, episode, state, old_epsilon, ret,
                   epsilon_initial, statsVars, fishVars>>

\* visualizer.episode_finished(score, epsilon, avg_reward)
CallEpisodeFinished ==
    /\ step_count < VisCalls
    /\ \E sc \in FinishedScores :
          /\ SetVis(EpisodeFinished(TheVis, sc, epsilon,
                                    AvgReward(total_reward, steps)))
          /\ args' = [score |-> sc]
    /\ op' = "episode_finished"
    /\ step_count' = step_count + 1
    /\ UNCHANGED <<envVars, agentVars, pc, episode, state, old_epsilon, ret,
                   err, epsilon_initial, statsVars, fishVars>>

NextVis == CallUpdateDisplay \/ CallEpisodeFinished

SpecVis == InitVis /\ [][NextVis]_vars

\* C15: update_display() changes no field of the environment and no field of
\* the agent; what it changes is the visualizer's.
C15_DisplayFrame ==
    [][op' = "update_display" =>
          /\ envVars' = envVars
          /\ agentVars' = agentVars
          /\ <<pc, episode, state, old_epsilon>>' = <<pc, episode, state, old_epsilon>>]_vars

\* two redraws in a row have left two points on the trail
C15_Redrawn ==
    /\ op = "update_display" /\ err = "none"
    /\ Len(agent_trail) = 2
    /\ agent_trail[2] = <<agent_x, agent_y>>

----------------------------------------------------------------------------
\* EcosystemStats: the statistics dashboard.  Two threads: the GUI thread in
\* root.mainloop(), and the polling thread in data_update_loop().

\* self.max_data_points
max_data_points == 300

\* passes of the polling loop in one run
MaxPolls == 2

\* floats of the polling file are in units of 1/Tenth
Tenth == 10

\* The polling file as a read finds it: whether os.path.exists, its age in
\* units of 1/Milli s, whether getmtime/open/read succeed, the bytes read,
\* the five floats they unpack to and whether int() can convert them (it
\* raises on nan and inf).  Samples A and B differ in the temperature only
\* (-1.0 and -2.0), sample C in every value.
SampleA == <<125, 79, 30, -10, 20>>
SampleB == <<125, 79, 30, -20, 20>>
SampleC == <<130, 80, 35, 15, 0>>

StatsFile(ex, age, rd, size, fin, sample) ==
    [exists |-> ex, age |-> age, readable |-> rd, size |-> size,
     finite |-> fin, sample |-> sample]

StatsFiles ==
    {StatsFile(FALSE, 0, TRUE, 0, TRUE, SampleA),
     StatsFile(TRUE, 6000, TRUE, 20, TRUE, SampleC),
     StatsFile(TRUE, 100, FALSE, 20, TRUE, SampleA),
     StatsFile(TRUE, 100, TRUE, 12, TRUE, SampleA),
     StatsFile(TRUE, 100, TRUE, 20, FALSE, SampleA),
     StatsFile(TRUE, 100, TRUE, 20, TRUE, SampleA),
     StatsFile(TRUE, 100, TRUE, 20, TRUE, SampleB),
     StatsFile(TRUE, 5000, TRUE, 20, TRUE, SampleC)}

\* How a call into Tk made by the polling thread ends: carried out (TRUE) or
\* raising (FALSE).  With a threaded Tcl the call is handed to the main
\* thread, and raises RuntimeError unless that thread is in its main loop;
\* with an unthreaded Tcl the call is made in place, and raises TclError
\* once root.destroy() has run.
TkOutcomes ==
    IF threaded THEN {pc = "mainloop"}
    ELSE {pc \in {"constructed", "mainloop", "interrupted"}}

\* struct.unpack('fffff', data), then int() of the three counts
Unpack(sample) ==
    <<sample[1], sample[2] \div Tenth, sample[3] \div Tenth, sample[4],
      sample[5] \div Tenth>>

\* hash() of a float given in tenths: the integer for a whole number, -2 for
\* -1.0 as for -2.0; of an int: the integer, -2 for -1
HashFloat(v) ==
    IF v % Tenth = 0
    THEN (IF v \div Tenth = -1 THEN -2 ELSE v \div Tenth)
    ELSE 1000 * Tenth + v
HashInt(n) == IF n = -1 THEN -2 ELSE n

\* hash((total_nutrition, fish_count, plant_count, temperature, bleached_count)),
\* the tuple's hash given by the hashes of its items
DataHash(d) ==
    <<HashFloat(d[1]), HashInt(d[2]), HashInt(d[3]), HashFloat(d[4]), HashInt(d[5])>>

\* deque(maxlen=self.max_data_points).append(v)
DequeAppend(q, v) ==
    IF Len(q) >= max_data_points THEN Tail(q) \o <<v>> ELSE Append(q, v)

ReadResult(data, connected, log) ==
    [data |-> data, connected |-> connected, log |-> log, raised |-> "none"]

\* ReadStatsFile without the check of the file's age
ReadStatsFile_NoAgeCheck(f, connected) ==
    IF ~f.exists THEN ReadResult(NoData, connected, <<>>)
    ELSE IF ~f.readable \/ (f.size = 20 /\ ~f.finite)
    THEN ReadResult(NoData, connected,
                    IF connected THEN <<"Error reading stats">> ELSE <<>>)
    ELSE IF f.size = 20
    THEN ReadResult(Unpack(f.sample), TRUE,
                    IF ~connected THEN <<"Connected to simulation">> ELSE <<>>)
    ELSE ReadResult(NoData, connected, <<"Invalid data format">>)

\* read_stats_file() on the file f: the tuple returned (NoData for the five
\* None), simulation_connected after the call, the messages passed to log(),
\* and what the call raised: its try/except returns the five None on every
\* exception
ReadStatsFile(f, connected) ==
    IF ~f.exists THEN ReadResult(NoData, connected, <<>>)
    ELSE IF f.age > 5 * Milli
    THEN ReadResult(NoData, FALSE,
                    IF connected THEN <<"Lost connection to simulation">> ELSE <<>>)
    ELSE IF ~f.readable \/ (f.size = 20 /\ ~f.finite)
    THEN ReadResult(NoData, connected,
                    IF connected THEN <<"Error reading stats">> ELSE <<>>)
    ELSE IF f.size = 20
    THEN ReadResult(Unpack(f.sample), TRUE,
                    IF ~connected THEN <<"Connected to simulation">> ELSE <<>>)
    ELSE ReadResult(NoData, connected, <<"Invalid data format">>)

\* log(message): self.info_text.insert(...); when that raises, the bare
\* except prints the message and the widget stays as it was
Log(text, messages, ok) == IF ok THEN text \o messages ELSE text

\* EcosystemStats(): setup_gui() logs its first line, auto_start() sets
\* running, starts the polling thread and logs; run() has not been called
InitStats ==
    /\ running = TRUE
    /\ update_thread = 1
    /\ threaded \in BOOLEAN
    /\ simulation_connected = FALSE
    /\ time_points = <<>>
    /\ total_environmental_nutrition = <<>>
    /\ fish_count = <<>>
    /\ plant_count = <<>>
    /\ temperature_data = <<>>
    /\ bleached_count_data = <<>>
    /\ connection_label = "Connecting..."
    /\ info_text = <<"Marine Ecosystem Statistics initialized successfully",
                     "Data monitoring thread started">>
    /\ charts = NoCharts
    /\ after_queue = <<>>
    /\ poll_pc = "check"
    /\ polled = NoData
    /\ last_data_hash = NoData
    /\ op = "init"
    /\ args = NoArgs
    /\ ret = NoRet
    /\ err = "none"
    /\ q_table = CHOOSE t \in InitialTables : TRUE
    /\ learning_rate = DefaultParams.learning_rate
    /\ discount_factor = DefaultParams.discount_factor
    /\ epsilon = DefaultParams.epsilon
    /\ epsilon_decay = DefaultParams.epsilon_decay
    /\ epsilon_min = DefaultParams.epsilon_min
    /\ epsilon_initial = DefaultParams.epsilon
    /\ IdleEnv
    /\ IdleVisualizer
    /\ IdleLoop("constructed")
    /\ IdleFish

\* what no step of the dashboard touches
StatsFrame ==
    UNCHANGED <<envVars, agentVars, visVars, episode, state, old_epsilon, ret,
                epsilon_initial, update_thread, threaded, fishVars>>

\* PollCheck going round whatever running says
PollCheck_IgnoresRunning ==
    /\ poll_pc = "check"
    /\ step_count < MaxPolls
    /\ poll_pc' = "read"
    /\ op' = "poll_check"
    /\ args' = NoArgs
    /\ UNCHANGED <<running, simulation_connected, seriesVars, widgetVars,
                   after_queue, polled, last_data_hash, pc, step_count, err>>
    /\ StatsFrame

\* the polling thread: while self.running
PollCheck ==
    /\ poll_pc = "check"
    /\ ~running \/ step_count < MaxPolls
    /\ poll_pc' = IF running THEN "read" ELSE "done"
    /\ op' = "poll_check"
    /\ args' = NoArgs
    /\ UNCHANGED <<running, simulation_connected, seriesVars, widgetVars,
                   after_queue, polled, last_data_hash, pc, step_count, err>>
    /\ StatsFrame

\* the polling thread: ... = self.read_stats_file()
PollRead ==
    /\ poll_pc = "read"
    /\ \E f \in StatsFiles, ok \in TkOutcomes :
          \E r \in {ReadStatsFile(f, simulation_connected)} :
              /\ polled' = r.data
              /\ simulation_connected' = r.connected
              /\ info_text' = Log(info_text, r.log, ok)
              /\ err' = r.raised
              /\ poll_pc' = IF r.raised = "none" THEN "compare" ELSE "except"
              /\ args' = [file |-> f]
    /\ op' = "read_stats_file"
    /\ UNCHANGED <<running, seriesVars, connection_label, charts, after_queue,
                   last_data_hash, pc, step_count>>
    /\ StatsFrame

\* the polling thread: the test of the tuple read and of its hash, and
\* self.connection_label.config(...); time.sleep(0.1) where the pass ends here
PollCompare ==
    /\ poll_pc = "compare"
    /\ \E ok \in TkOutcomes :
          IF polled # NoData /\ DataHash(polled) = last_data_hash
          THEN /\ poll_pc' = "check"
               /\ step_count' = step_count + 1
               /\ UNCHANGED connection_label
          ELSE IF ~simulation_connected
          THEN /\ poll_pc' = IF polled # NoData THEN "append_time" ELSE "check"
               /\ step_count' = IF polled # NoData THEN step_count
                                ELSE step_count + 1
               /\ UNCHANGED connection_label
          ELSE IF ok
          THEN /\ connection_label' = IF polled # NoData THEN "Connected"
                                      ELSE "No Data"
               /\ poll_pc' = IF polled # NoData THEN "append_time" ELSE "check"
               /\ step_count' = IF polled # NoData THEN step_count
                                ELSE step_count + 1
          ELSE /\ poll_pc' = "except"
               /\ UNCHANGED <<connection_label, step_count>>
    /\ op' = "poll_compare"
    /\ args' = NoArgs
    /\ UNCHANGED <<running, simulation_connected, seriesVars, info_text, charts,
                   after_queue, polled, last_data_hash, pc, err>>
    /\ StatsFrame

\* the polling thread: the six appends, one a step; current_time is the pass
PollAppend ==
    /\ poll_pc \in {"append_time", "append_nutrition", "append_fish",
                    "append_plant", "append_temperature", "append_bleached"}
    /\ time_points' =
          IF poll_pc = "append_time"
          THEN DequeAppend(time_points, step_count) ELSE time_points
    /\ total_environmental_nutrition' =
          IF poll_pc = "append_nutrition"
          THEN DequeAppend(total_environmental_nutrition, polled[1])
          ELSE total_environmental_nutrition
    /\ fish_count' =
          IF poll_pc = "append_fish"
          THEN DequeAppend(fish_count, polled[2]) ELSE fish_count
    /\ plant_count' =
          IF poll_pc = "append_plant"
          THEN DequeAppend(plant_count, polled[3]) ELSE plant_count
    /\ temperature_data' =
          IF poll_pc = "append_temperature"
          THEN DequeAppend(temperature_data, polled[4]) ELSE temperature_data
    /\ bleached_count_data' =
          IF poll_pc = "append_bleached"
          THEN DequeAppend(bleached_count_data, polled[5])
          ELSE bleached_count_data
    /\ poll_pc' = CASE poll_pc = "append_time" -> "append_nutrition"
                    [] poll_pc = "append_nutrition" -> "append_fish"
                    [] poll_pc = "append_fish" -> "append_plant"
                    [] poll_pc = "append_plant" -> "append_temperature"
                    [] poll_pc = "append_temperature" -> "append_bleached"
                    [] poll_pc = "append_bleached" -> "schedule"
    /\ op' = "poll_append"
    /\ args' = NoArgs
    /\ UNCHANGED <<running, simulation_connected, widgetVars, after_queue,
                   polled, last_data_hash, pc, step_count, err>>
    /\ StatsFrame

\* PollSchedule forgetting to note the hash of what it appended
PollSchedule_KeepsHash ==
    /\ poll_pc = "schedule"
    /\ \E ok \in TkOutcomes :
          IF ok
          THEN /\ after_queue' = Append(after_queue, "update_charts")
               /\ poll_pc' = "check"
               /\ step_count' = step_count + 1
          ELSE /\ poll_pc' = "except"
               /\ UNCHANGED <<after_queue, step_count>>
    /\ op' = "poll_schedule"
    /\ args' = NoArgs
    /\ UNCHANGED <<running, simulation_connected, seriesVars, widgetVars,
                   polled, last_data_hash, pc, err>>
    /\ StatsFrame

\* the polling thread: self.root.after(0, self.update_charts);
\* last_data_hash = current_data_hash; time.sleep(0.1)
PollSchedule ==
    /\ poll_pc = "schedule"
    /\ \E ok \in TkOutcomes :
          IF ok
          THEN /\ after_queue' = Append(after_queue, "update_charts")
               /\ last_data_hash' = DataHash(polled)
               /\ poll_pc' = "check"
               /\ step_count' = step_count + 1
          ELSE /\ poll_pc' = "except"
               /\ UNCHANGED <<after_queue, last_data_hash, step_count>>
    /\ op' = "poll_schedule"
    /\ args' = NoArgs
    /\ UNCHANGED <<running, simulation_connected, seriesVars, widgetVars,
                   polled, pc, err>>
    /\ StatsFrame

\* the polling thread: except Exception as e:
\* self.log(f"Update loop error: {e}"); time.sleep(1.0)
PollExcept ==
    /\ poll_pc = "except"
    /\ \E ok \in TkOutcomes :
          info_text' = Log(info_text, <<"Update loop error">>, ok)
    /\ poll_pc' = "check"
    /\ step_count' = step_count + 1
    /\ op' = "poll_except"
    /\ args' = NoArgs
    /\ UNCHANGED <<running, simulation_connected, seriesVars, connection_label,
                   charts, after_queue, polled, last_data_hash, pc, err>>
    /\ StatsFrame

\* the number of points draw_chart plots: zip(self.time_points, data)
Plotted(data) == Min(Len(time_points), Len(data))

\* the GUI thread: the main loop runs the callback at the head of the queue,
\* update_charts()
GuiUpdateCharts ==
    /\ pc = "mainloop"
    /\ after_queue # <<>>
    /\ after_queue' = Tail(after_queue)
    /\ charts' =
          IF Len(time_points) < 2 THEN charts
          ELSE [nutrition |-> Plotted(total_environmental_nutrition),
                temperature |-> Plotted(temperature_data),
                fish |-> Plotted(fish_count),
                plant |-> Plotted(plant_count)]
    /\ op' = "update_charts"
    /\ args' = NoArgs
    /\ UNCHANGED <<running, simulation_connected, seriesVars, connection_label,
                   info_text, pollVars, pc, step_count, err>>
    /\ StatsFrame

\* the GUI thread: on_closing(): log(...); stop_monitoring(), which clears
\* running, joins the polling thread for at most 1 s and logs;
\* self.root.destroy()
OnClosing ==
    /\ pc = "mainloop"
    /\ running' = FALSE
    /\ info_text' = Log(info_text, <<"Shutting down statistics monitor...",
                                     "Data monitoring stopped">>, TRUE)
    /\ pc' = "closed"
    /\ op' = "on_closing"
    /\ args' = NoArgs
    /\ UNCHANGED <<simulation_connected, seriesVars, connection_label, charts,
                   after_queue, pollVars, step_count, err>>
    /\ StatsFrame

\* the GUI thread: run() enters self.root.mainloop()
RunMainloop ==
    /\ pc = "constructed"
    /\ pc' = "mainloop"
    /\ op' = "run"
    /\ args' = NoArgs
    /\ UNCHANGED <<running, simulation_connected, seriesVars, widgetVars,
                   after_queue, pollVars, step_count, err>>
    /\ StatsFrame

\* start_monitoring(), called while the window is up: it returns at once
\* when running is set, else it sets running, starts a polling thread and logs
CallStartMonitoring ==
    /\ pc = "mainloop"
    /\ IF running
       THEN UNCHANGED <<running, update_thread, poll_pc, info_text>>
       ELSE /\ running' = TRUE
            /\ update_thread' = update_thread + 1
            /\ poll_pc' = "check"
            /\ info_text' = Log(info_text, <<"Data monitoring thread started">>, TRUE)
    /\ op' = "start_monitoring"
    /\ args' = NoArgs
    /\ UNCHANGED <<simulation_connected, seriesVars, connection_label, charts,
                   after_queue, polled, last_data_hash, pc, step_count, err,
                   threaded>>
    /\ UNCHANGED <<envVars, agentVars, visVars, episode, state, old_epsilon,
                   ret, epsilon_initial, fishVars>>

\* the GUI thread: KeyboardInterrupt out of mainloop(): run() logs, and its
\* finally calls stop_monitoring(); the window is not destroyed
Interrupt ==
    /\ pc = "mainloop"
    /\ running' = FALSE
    /\ info_text' = Log(info_text, <<"Interrupted by user",
                                     "Data monitoring stopped">>, TRUE)
    /\ pc' = "interrupted"
    /\ op' = "stop_monitoring"
    /\ args' = NoArgs
    /\ UNCHANGED <<simulation_connected, seriesVars, connection_label, charts,
                   after_queue, pollVars, step_count, err>>
    /\ StatsFrame

\* the GUI thread: mainloop() has returned after root.destroy(); the finally
\* of run() calls stop_monitoring(), whose log() raises inside and prints
RunFinally ==
    /\ pc = "closed"
    /\ running' = FALSE
    /\ info_text' = Log(info_text, <<"Data monitoring stopped">>, FALSE)
    /\ pc' = "exit"
    /\ op' = "stop_monitoring"
    /\ args' = NoArgs
    /\ UNCHANGED <<simulation_connected, seriesVars, connection_label, charts,
                   after_queue, pollVars, step_count, err>>
    /\ StatsFrame

\* the steps of the polling thread
PollingThread ==
    \/ PollCheck
    \/ PollRead
    \/ PollCompare
    \/ PollAppend
    \/ PollSchedule
    \/ PollExcept

\* the steps of the GUI thread
GuiThread ==
    \/ RunMainloop
    \/ GuiUpdateCharts
    \/ CallStartMonitoring
    \/ OnClosing
    \/ Interrupt
    \/ RunFinally

NextStats == PollingThread \/ GuiThread

SpecStats == InitStats /\ [][NextStats]_vars

\* a step of the polling thread, by what it does to the thread's position:
\* the thread has a step to take unless it has left the loop
PollAdvance ==
    /\ poll_pc \notin {"none", "done"}
    /\ poll_pc = "check" => (~running \/ step_count < MaxPolls)
    /\ poll_pc' \in {"check", "read", "compare", "append_time",
                     "append_nutrition", "append_fish", "append_plant",
                     "append_temperature", "append_bleached", "schedule",
                     "except", "done"}

\* the polling thread is a thread of its own: it is scheduled as long as it
\* has a step to take
FairStats == SpecStats /\ WF_poll_pc(PollAdvance)

\* a step of the polling thread
PollingStep == poll_pc' # poll_pc

\* C19: the polling thread changes no widget itself: over each of its steps
\* the connection label, the log text and the charts stay as they are, and
\* what it wants changed it puts on the GUI thread's queue.
C19_PollingDefersUI ==
    [][PollingStep =>
          (connection_label' = connection_label /\ info_text' = info_text
           /\ charts' = charts)]_vars

\* a polling file that is missing, older than 5 s, not 20 bytes long, or
\* unreadable
BadFile(f) ==
    ~f.exists \/ f.age > 5 * Milli \/ f.size # 20 \/ ~f.readable

\* C20: a read of a missing, stale, wrongly sized or unreadable file raises
\* nothing and yields no data; the pass that read no data appends to no
\* series, schedules nothing and ends back at the loop's test, whatever its
\* own widget calls do; and the loop ends only with the running flag cleared.
C20_BadFileAbsorbed ==
    /\ [][(op' = "read_stats_file" /\ PollingStep /\ BadFile(args'.file))
          => (err' = "none" /\ polled' = NoData /\ poll_pc' = "compare"
              /\ running' = running /\ seriesVars' = seriesVars)]_vars
    /\ [][(PollingStep /\ polled = NoData
           /\ poll_pc \in {"compare", "except"})
          => (seriesVars' = seriesVars /\ after_queue' = after_queue
              /\ running' = running /\ err' = "none"
              /\ poll_pc' \in {"check", "except"}
              /\ (poll_pc = "except" => poll_pc' = "check"))]_vars
    /\ [](poll_pc = "done" => ~running)

\* C20 witness: a wrongly sized file was read and logged, nothing was
\* appended, and the polling thread is in its next pass, about to read again.
C20_PollsOnAfterBadFile ==
    /\ poll_pc = "read" /\ step_count = 1 /\ running
    /\ info_text[Len(info_text)] = "Invalid data format"
    /\ polled = NoData /\ time_points = <<>> /\ after_queue = <<>>

----------------------------------------------------------------------------
\* Claims about the demo and about an episode as a whole

\* C21: in demo_trained_agent every action taken is the greedy one,
\* np.argmax of the current state's row, whatever np.random.random() draws.
C21_DemoGreedy ==
    [][(pc = "demo_loop" /\ op' = "step")
       => args'.action = ArgMax(q_table[state])]_vars

\* C24: after reset() and after every step(), score plus the number of
\* resources left is num_algae: a resource is counted when it is removed,
\* and once.
C24_ScorePlusLeft ==
    /\ [](score + Len(algae) = NumAlgae)
    /\ [][(op' = "step")
          => (score' - score = Len(algae) - Len(algae') /\ score' >= score)]_vars

\* C24 witness: steps have eaten resources and others are left
C24_SomeEatenSomeLeft ==
    op = "step" /\ err = "none" /\ score >= 1 /\ algae # <<>> /\ steps >= 2

\* C25: after every step() that returns, every resource left is at distance
\* >= 5 from the agent, so that the nearest-resource distance read for the
\* returned state, and by the next step for its reward shaping, is not 0 and
\* get_nearest_algae_info() divides without raising.
C25_LeftAreFar ==
    (op = "step" /\ err = "none") =>
        /\ \A i \in 1 .. Len(algae) :
              Dist2(agent_x, agent_y, algae[i]) >= Radius2
        /\ algae # <<>> =>
              /\ GetNearestAlgaeInfo(agent_x, agent_y, algae).dist >= 5 * Scale
              /\ GetNearestAlgaeInfo(agent_x, agent_y, algae).raised = "none"
              /\ GetState(agent_x, agent_y, algae).raised = "none"

\* C25 witness: a step has eaten resources and the nearest one left is just
\* outside the radius
C25_NearOneLeft ==
    /\ op = "step" /\ err = "none" /\ score >= 1 /\ algae # <<>>
    /\ NearestDistance(agent_x, agent_y, algae) < 7 * Scale

\* C27: the trail never holds more than 15 positions, and holds positions of
\* the current episode only: it is empty when an episode begins, and when
\* the first step of an episode is drawn it holds that step's position and
\* nothing else.
C27_TrailOfEpisode ==
    /\ [](Len(agent_trail) <= TrailMax)
    /\ []((pc = "loop" /\ step_count = 0) => agent_trail = <<>>)
    /\ [][(pc = "loop" /\ step_count = 0 /\ op' = "step"
           /\ agent_trail' # agent_trail)
          => agent_trail' = << <<agent_x', agent_y'>> >>]_vars

\* where demo_trained_agent is: its construction of the environment, then
\* its episodes
InDemo ==
    \/ pc \in {"demo", "demo_loop", "demo_end"}
    \/ pc = "train" /\ episode = Episodes

\* the exploration rate the agent was handed over with: inside a demo
\* episode the value saved in old_epsilon, outside it agent.epsilon
DemoRate == IF pc \in {"demo_loop", "demo_end"} THEN old_epsilon ELSE epsilon

\* C26: demo_trained_agent never changes the value table; the exploration
\* rate it was called with is agent.epsilon again after each demo episode
\* and when it returns (or ends in an exception); and a demo episode stops
\* after at most 151 steps (the demo's budget plus one).
C26_DemoFrame ==
    /\ [][InDemo => (q_table' = q_table /\ DemoRate' = DemoRate)]_vars
    /\ [][(InDemo /\ pc' \in {"demo", "exit", "crashed"})
          => epsilon' = DemoRate]_vars
    /\ [](pc \in {"demo_loop", "demo_end"}
             => (step_count <= DemoStepLimit + 1 /\ steps = step_count))

\* C26 witness: the demo has returned after an episode cut at its step
\* budget, with the rate training had decayed it to
C26_DemoReturned ==
    /\ pc = "exit" /\ step_count = DemoStepLimit + 1 /\ algae # <<>>
    /\ epsilon = old_epsilon /\ epsilon_min <= epsilon
    /\ epsilon < epsilon_initial

----------------------------------------------------------------------------
\* Claims about the dashboard's series, checked under SpecStats

\* the sample appended last: the last value of each of the five data series
LastAppended ==
    <<total_environmental_nutrition[Len(total_environmental_nutrition)],
      fish_count[Len(fish_count)], plant_count[Len(plant_count)],
      temperature_data[Len(temperature_data)],
      bleached_count_data[Len(bleached_count_data)]>>

\* a pass of the loop is at its test of what it read
AtCompare == poll_pc = "compare" /\ PollingStep

\* C23: a data point is appended only for a sample that was read and that
\* differs from the sample appended last, one value to each of the six
\* series; a pass that read nothing, or the sample appended last again,
\* appends nothing and schedules no redraw.
C23_AppendOnChange ==
    /\ [][(AtCompare /\ poll_pc' = "append_time")
          => (polled # NoData
              /\ (time_points # <<>> => polled # LastAppended))]_vars
    /\ [][(AtCompare
           /\ (polled = NoData
               \/ (time_points # <<>> /\ polled = LastAppended)))
          => (poll_pc' \in {"check", "except"}
              /\ seriesVars' = seriesVars /\ after_queue' = after_queue)]_vars
    /\ [][(seriesVars' # seriesVars \/ Len(after_queue') > Len(after_queue))
          => poll_pc \in {"append_time", "append_nutrition", "append_fish",
                          "append_plant", "append_temperature",
                          "append_bleached", "schedule"}]_vars
    /\ [](poll_pc \in {"schedule", "check", "read", "compare", "done"}
             => (/\ Len(total_environmental_nutrition) = Len(time_points)
                 /\ Len(fish_count) = Len(time_points)
                 /\ Len(plant_count) = Len(time_points)
                 /\ Len(temperature_data) = Len(time_points)
                 /\ Len(bleached_count_data) = Len(time_points)))
    /\ [](poll_pc = "schedule" => polled = LastAppended)

\* C23 witness: the second pass read the sample of the first again and ended
\* with the one data point of the first pass and nothing new scheduled
C23_RepeatSkipped ==
    /\ poll_pc = "check" /\ step_count = 2 /\ op = "poll_compare"
    /\ Len(time_points) = 1 /\ polled = LastAppended
    /\ Len(after_queue) + (IF charts = NoCharts THEN 0 ELSE 1) <= 1

\* C28: whenever update_charts() reads the series, each of the five data
\* series has as many points as time_points, whatever the polling thread is
\* doing; and no series holds more than 300 points.
C28_SeriesAligned ==
    /\ [][op' = "update_charts"
          => (/\ Len(total_environmental_nutrition) = Len(time_points)
              /\ Len(fish_count) = Len(time_points)
              /\ Len(plant_count) = Len(time_points)
              /\ Len(temperature_data) = Len(time_points)
              /\ Len(bleached_count_data) = Len(time_points))]_vars
    /\ [](/\ Len(time_points) <= max_data_points
          /\ Len(total_environmental_nutrition) <= max_data_points
          /\ Len(fish_count) <= max_data_points
          /\ Len(plant_count) <= max_data_points
          /\ Len(temperature_data) <= max_data_points
          /\ Len(bleached_count_data) <= max_data_points)

\* C29 as stated: once stop_monitoring() has set running to False the
\* polling thread appends nothing more and in the end leaves
\* data_update_loop; and start_monitoring() called while running is set
\* starts no second polling thread.
C29_StopsAtOnce ==
    /\ [][~running => seriesVars' = seriesVars]_vars
    /\ (~running ~> poll_pc = "done")
    /\ [][(op' = "start_monitoring" /\ running)
          => (update_thread' = update_thread /\ running'
              /\ pollVars' = pollVars)]_vars

\* C29, amended: once running is False the polling thread begins no new
\* pass: it finishes the pass it is in, which may still append its data
\* point, leaves data_update_loop at its next test of the flag, and appends
\* nothing after that; and start_monitoring() called while running is set
\* starts no second polling thread.
C29_StopsAfterPass ==
    /\ [][(~running /\ PollingStep) => poll_pc' # "read"]_vars
    /\ [][(~running /\ seriesVars' # seriesVars)
          => poll_pc \in {"append_time", "append_nutrition", "append_fish",
                          "append_plant", "append_temperature",
                          "append_bleached"}]_vars
    /\ [][poll_pc = "done" => (poll_pc' = "done" /\ seriesVars' = seriesVars)]_vars
    /\ (~running ~> poll_pc = "done")
    /\ [][(op' = "start_monitoring" /\ running)
          => (update_thread' = update_thread /\ running'
              /\ pollVars' = pollVars)]_vars

\* C29 witness: the window was closed while a pass was at its appends; the
\* pass completed its data point, found the window gone when scheduling the
\* redraw, and the thread has left the loop
C29_LeftAfterClosing ==
    /\ poll_pc = "done" /\ ~running /\ pc \in {"closed", "exit"}
    /\ update_thread = 1
    /\ Len(time_points) = 1 /\ Len(bleached_count_data) = 1
    /\ last_data_hash = NoData /\ after_queue = <<>>

----------------------------------------------------------------------------
\* fish_controller.py: PureNeuralFishBrain

\* exploration_decay is in units of 1/DecayScale; learning_rate and
\* exploration_rate are in units of 1/EScale, rewards and weights in 1/Milli
DecayScale == 10000

\* the values __init__ assigns after building the network
BrainDefaults ==
    [learning_rate |-> 8000, exploration_rate |-> 60000,
     exploration_decay |-> 9995, min_exploration |-> 5000]

\* a brain's fields: the network (one entry standing for each of weights1,
\* weights2, bias1 and bias2), the learning parameters and the counters
Brain(id, w, lr, er, gen, rc, tr, fa, sp) ==
    [fish_id |-> id, weights |-> w, learning_rate |-> lr,
     exploration_rate |-> er, generation |-> gen, reproduction_count |-> rc,
     total_reward |-> tr, frames_alive |-> fa, species_type |-> sp]

\* parent_brain=None
NoBrain == Brain(NoneIdx, <<>>, 0, 0, 0, 0, 0, 0, "None")

\* initialize_random_network(): the networks random.uniform draws
RandomNets == {<<350, -120, 40, -90>>, <<-410, 260, -70, 10>>}

\* inherit_from_parent: what the mutation loops add to each entry, 0 where
\* random.random() >= mutation_rate and a draw of
\* random.uniform(-mutation_strength, mutation_strength) elsewhere
MutationDraws == {<<0, 0, 0, 0>>, <<300, 0, -300, 0>>, <<0, -150, 0, 20>>}

\* the draws of random.uniform(0.8, 1.2) and of random.uniform(0.9, 1.1),
\* in units of 1/Milli
LearningFactors == {800, 1000, 1200}
ExplorationFactors == {900, 1100}

\* inherit_from_parent(parent_brain): the fields it assigns
InheritFromParent(parent, mut, f1, f2) ==
    [weights |-> [i \in DOMAIN parent.weights |-> parent.weights[i] + mut[i]],
     learning_rate |-> FixMul(parent.learning_rate, f1),
     exploration_rate |-> FixMul(parent.exploration_rate, f2),
     reproduction_count |-> parent.reproduction_count + 1]

\* PureNeuralFishBrain(fish_id, parent_brain): the network is inherited or
\* drawn first; the assignments that follow in __init__ then set
\* learning_rate, exploration_rate and reproduction_count, whatever
\* inherit_from_parent had put there
BrainInit(id, parent, net, mut, f1, f2) ==
    LET inherited == InheritFromParent(parent, mut, f1, f2)
    IN  Brain(id,
              IF parent # NoBrain THEN inherited.weights ELSE net,
              BrainDefaults.learning_rate,
              BrainDefaults.exploration_rate,
              IF parent # NoBrain THEN parent.generation + 1 ELSE 0,
              0, 0, 0, "None")

\* brains a parent can be: alive for more than 600 frames, so with the
\* exploration rate decayed, to the floor in the end; reproduction counts as
\* track_reproduction_events sets them
ParentBrains ==
    {Brain(0, <<350, -120, 40, -90>>, 8000, 44430, 0, 0, 12500, 601, "herbivore"),
     Brain(0, <<350, -120, 40, -90>>, 8000, 5000, 0, 2, 90000, 6000, "herbivore"),
     Brain(1, <<-410, 260, -70, 10>>, 8000, 44430, 1, 1, -300, 601, "predator"),
     Brain(1, <<50, 560, -370, 10>>, 8000, 5000, 2, 3, 4000, 9000, "predator")}

\* the fish ids of the model
FishIds == {0, 1}

\* the module as imported, and nothing else running
InitBrain ==
    /\ IdleEnv
    /\ op = "init"
    /\ args = NoArgs
    /\ ret = NoRet
    /\ err = "none"
    /\ q_table = CHOOSE t \in InitialTables : TRUE
    /\ learning_rate = DefaultParams.learning_rate
    /\ discount_factor = DefaultParams.discount_factor
    /\ epsilon = DefaultParams.epsilon
    /\ epsilon_decay = DefaultParams.epsilon_decay
    /\ epsilon_min = DefaultParams.epsilon_min
    /\ epsilon_initial = DefaultParams.epsilon
    /\ IdleVisualizer
    /\ IdleLoop("brain")
    /\ IdleStats
    /\ IdleFish

\* brain = PureNeuralFishBrain(fish_id, parent_brain)
CallBrainInit ==
    /\ step_count < MaxCalls
    /\ \E id \in FishIds, parent \in ParentBrains \cup {NoBrain},
          net \in RandomNets, mut \in MutationDraws,
          f1 \in LearningFactors, f2 \in ExplorationFactors :
          /\ ret' = BrainInit(id, parent, net, mut, f1, f2)
          /\ args' = IF parent # NoBrain
                     THEN [fish_id |-> id, parent |-> parent, mut |-> mut,
                           f1 |-> f1, f2 |-> f2]
                     ELSE [fish_id |-> id, parent |-> parent, net |-> net]
    /\ op' = "brain_init"
    /\ step_count' = step_count + 1
    /\ UNCHANGED <<envVars, agentVars, visVars, pc, episode, state,
                   old_epsilon, err, epsilon_initial, statsVars, fishVars>>

NextBrain == CallBrainInit

SpecBrain == InitBrain /\ [][NextBrain]_vars

\* C22: a brain constructed from a parent starts with the parent's learning
\* rate scaled by a factor in [0.8, 1.2], the parent's exploration rate
\* scaled by a factor in [0.9, 1.1], the parent's reproduction count plus
\* one, and a mutated copy of the parent's network.
C22_InheritedRates ==
    [][(op' = "brain_init" /\ args'.parent # NoBrain) =>
          LET b == ret'
              p == args'.parent
          IN  /\ 800 * p.learning_rate <= Milli * b.learning_rate
              /\ Milli * b.learning_rate <= 1200 * p.learning_rate
              /\ 900 * p.exploration_rate <= Milli * b.exploration_rate
              /\ Milli * b.exploration_rate <= 1100 * p.exploration_rate
              /\ b.reproduction_count = p.reproduction_count + 1
              /\ DOMAIN b.weights = DOMAIN p.weights
              /\ \A i \in DOMAIN p.weights :
                    /\ b.weights[i] - p.weights[i] <= 300
                    /\ p.weights[i] - b.weights[i] <= 300]_vars

----------------------------------------------------------------------------
\* fish_controller.py: update_fish(), called by the simulation once a frame

\* frames of one run
MaxFrames == 2

\* frames_alive a brain needs to be taken as a parent
ParentFrames == 600

\* What the simulation answers during one frame: fish_get_count(), the ids
\* fish_get_position() returns a position for, the species name
\* fish_get_type_info() reports for a fish that exists, its fourth entry,
\* and fish_get_last_reward()
SimStates ==
    {[count |-> c, positioned |-> ps, reproductions |-> n, reward |-> r] :
        c \in 0 .. 2, ps \in SUBSET FishIds, n \in {0, 1}, r \in {0, 500}}

Species == [i \in FishIds |-> IF i = 0 THEN "herbivore" ELSE "predator"]

\* simulation.fish_get_type_info(fish_id)[0], "None" for no fish
FishName(sim, id) ==
    IF id \in FishIds /\ id < sim.count THEN Species[id] ELSE "None"

\* the dict d with d[k] = v
DictSet(d, k, v) == [i \in DOMAIN d \cup {k} |-> IF i = k THEN v ELSE d[i]]

\* the controller's globals that creating a brain changes
Globals(brains, tracking, nxt) ==
    [fish_brains |-> brains, reproduction_tracking |-> tracking,
     next_fish_id |-> nxt]

\* create_brain_for_fish: the best parent among the brains of the same
\* species with frames_alive > 600, the one of highest total_reward
BestParent(brains, sim, id) ==
    LET name == FishName(sim, id)
        fit == {e \in DOMAIN brains :
                   /\ FishName(sim, e) # "None"
                   /\ FishName(sim, e) = name
                   /\ brains[e].total_reward > -999999 * Milli
                   /\ brains[e].frames_alive > ParentFrames}
    IN  IF name = "None" \/ fit = {} THEN NoBrain
        ELSE brains[CHOOSE e \in fit :
                       \A o \in fit :
                          \/ brains[o].total_reward < brains[e].total_reward
                          \/ (brains[o].total_reward = brains[e].total_reward
                              /\ e <= o)]

\* create_brain_for_fish(fish_id)
CreateBrainForFish(g, sim, id, net) ==
    LET parent == BestParent(g.fish_brains, sim, id)
        brain == BrainInit(id, parent, net, [i \in 1 .. Len(net) |-> 0],
                           Milli, Milli)
    IN  Globals(DictSet(g.fish_brains, id, brain),
                DictSet(g.reproduction_tracking, id, 0),
                IF id >= g.next_fish_id THEN id + 1 ELSE g.next_fish_id)

\* the first frame: for fish_id in range(initial_fish_count):
\* create_brain_for_fish(fish_id)
RECURSIVE CreateInitial(_, _, _, _)
CreateInitial(g, sim, id, net) ==
    IF id >= sim.count THEN g
    ELSE CreateInitial(CreateBrainForFish(g, sim, id, net), sim, id + 1, net)

\* ScanForNewFish making a brain for every fish that has a position, the
\* fish that have one already too
RECURSIVE ScanForNewFish_Recreates(_, _, _, _)
ScanForNewFish_Recreates(g, sim, id, net) ==
    IF id >= sim.count THEN g
    ELSE IF id \in sim.positioned
    THEN ScanForNewFish_Recreates(CreateBrainForFish(g, sim, id, net), sim,
                                  id + 1, net)
    ELSE ScanForNewFish_Recreates(g, sim, id + 1, net)

\* scan_for_new_fish(), from fish id on
RECURSIVE ScanForNewFish(_, _, _, _)
ScanForNewFish(g, sim, id, net) ==
    IF id >= sim.count THEN g
    ELSE IF id \notin DOMAIN g.fish_brains /\ id \in sim.positioned
    THEN ScanForNewFish(CreateBrainForFish(g, sim, id, net), sim, id + 1, net)
    ELSE ScanForNewFish(g, sim, id + 1, net)

\* track_reproduction_events(): whether the count of a fish rose
Reproduced(tracking, sim, id) ==
    /\ FishName(sim, id) # "None"
    /\ sim.reproductions > (IF id \in DOMAIN tracking THEN tracking[id] ELSE 0)

\* track_reproduction_events()
TrackReproductionEvents(g, sim) ==
    [g EXCEPT
        !.reproduction_tracking =
            [id \in DOMAIN g.reproduction_tracking \cup
                    {e \in DOMAIN g.fish_brains :
                        Reproduced(g.reproduction_tracking, sim, e)} |->
                IF id \in DOMAIN g.fish_brains
                   /\ Reproduced(g.reproduction_tracking, sim, id)
                THEN sim.reproductions ELSE g.reproduction_tracking[id]],
        !.fish_brains =
            [id \in DOMAIN g.fish_brains |->
                IF Reproduced(g.reproduction_tracking, sim, id)
                THEN [g.fish_brains[id] EXCEPT
                         !.reproduction_count = sim.reproductions]
                ELSE g.fish_brains[id]]]

\* learn_from_experience and replay_experience: the network moves when the
\* reward is not (nearly) 0; every entry by the reward's hundredth here
LearnFromExperience(w, reward) ==
    IF reward = 0 THEN w ELSE [i \in DOMAIN w |-> w[i] + reward \div 100]

\* brain.update()
BrainUpdate(b, sim) ==
    [b EXCEPT
        !.frames_alive = b.frames_alive + 1,
        !.species_type =
            IF b.species_type = "None" THEN FishName(sim, b.fish_id)
            ELSE b.species_type,
        !.total_reward = b.total_reward + sim.reward,
        !.weights = LearnFromExperience(b.weights, sim.reward),
        !.exploration_rate =
            Max(BrainDefaults.min_exploration,
                (b.exploration_rate * BrainDefaults.exploration_decay)
                    \div DecayScale)]

\* for fish_id, brain in list(fish_brains.items()):
\*     if simulation.fish_get_position(fish_id): brain.update()
UpdateBrains(g, sim) ==
    [g EXCEPT
        !.fish_brains =
            [id \in DOMAIN g.fish_brains |->
                IF id \in sim.positioned
                THEN BrainUpdate(g.fish_brains[id], sim)
                ELSE g.fish_brains[id]]]

\* the controller as imported by the simulation
InitFish ==
    /\ IdleEnv
    /\ op = "init"
    /\ args = NoArgs
    /\ ret = NoRet
    /\ err = "none"
    /\ q_table = CHOOSE t \in InitialTables : TRUE
    /\ learning_rate = DefaultParams.learning_rate
    /\ discount_factor = DefaultParams.discount_factor
    /\ epsilon = DefaultParams.epsilon
    /\ epsilon_decay = DefaultParams.epsilon_decay
    /\ epsilon_min = DefaultParams.epsilon_min
    /\ epsilon_initial = DefaultParams.epsilon
    /\ IdleVisualizer
    /\ IdleLoop("frames")
    /\ IdleStats
    /\ IdleFish

\* update_fish(): one frame
UpdateFish ==
    /\ frame_counter < MaxFrames
    /\ frame_counter' = frame_counter + 1
    /\ \E sim \in SimStates, net \in RandomNets :
          LET g0 == Globals(fish_brains, reproduction_tracking, next_fish_id)
              g1 == IF frame_counter + 1 = 1
                    THEN CreateInitial(g0, sim, 0, net) ELSE g0
              g2 == ScanForNewFish(g1, sim, 0, net)
              g3 == TrackReproductionEvents(g2, sim)
              g4 == UpdateBrains(g3, sim)
              g == IF shutdown_requested THEN g1 ELSE g4
          IN  /\ fish_brains' = g.fish_brains
              /\ reproduction_tracking' = g.reproduction_tracking
              /\ next_fish_id' = g.next_fish_id
              /\ args' = [sim |-> sim]
    /\ op' = "update_fish"
    /\ UNCHANGED <<envVars, agentVars, visVars, loopVars, ret, err,
                   epsilon_initial, statsVars, shutdown_requested>>

\* signal_handler(signum, frame), installed by the first frame
SignalHandler ==
    /\ frame_counter >= 1
    /\ ~shutdown_requested
    /\ shutdown_requested' = TRUE
    /\ op' = "signal_handler"
    /\ args' = NoArgs
    /\ UNCHANGED <<envVars, agentVars, visVars, loopVars, ret, err,
                   epsilon_initial, statsVars, fish_brains, frame_counter,
                   next_fish_id, reproduction_tracking>>

NextFish == UpdateFish \/ SignalHandler

SpecFish == InitFish /\ [][NextFish]_vars

\* frames_alive of the brain of fish id, 0 when it has none
FramesAlive(brains, id) ==
    IF id \in DOMAIN brains THEN brains[id].frames_alive ELSE 0

\* C30: after a frame of update_fish() without a shutdown request every
\* fish id below fish_get_count() that has a position has a brain, and every
\* brain was updated once if its fish has a position and not at all
\* otherwise; and no frame removes a brain or puts another in its place.
C30_BrainPerFish ==
    /\ [][(op' = "update_fish" /\ ~shutdown_requested) =>
             LET sim == args'.sim
             IN  /\ \A id \in 0 .. sim.count - 1 :
                       id \in sim.positioned => id \in DOMAIN fish_brains'
                 /\ \A id \in DOMAIN fish_brains' :
                       fish_brains'[id].frames_alive =
                          FramesAlive(fish_brains, id)
                          + (IF id \in sim.positioned THEN 1 ELSE 0)]_vars
    /\ [][\A id \in DOMAIN fish_brains :
             /\ id \in DOMAIN fish_brains'
             /\ fish_brains'[id].fish_id = id
             /\ fish_brains'[id].generation = fish_brains[id].generation
             /\ fish_brains'[id].frames_alive >= fish_brains[id].frames_alive
             /\ (op' # "update_fish" \/ shutdown_requested)
                   => fish_brains'[id] = fish_brains[id]]_vars

\* C30 witness: in the second frame fish 0, which had its brain from the
\* first, was updated again, fish 1 got its brain and its first update
C30_TwoGenerationsOfBrains ==
    /\ op = "update_fish" /\ frame_counter = 2 /\ ~shutdown_requested
    /\ DOMAIN fish_brains = {0, 1}
    /\ fish_brains[0].frames_alive = 2
    /\ fish_brains[1].frames_alive = 1

====
